---- MODULE Spec2Model ----
(***************************************************************************)
(* A model of the PIN lifecycle, the pin cache, the ISO 7816 status word   *)
(* handling and commands, and the file and utility functions of libopensc  *)
(* (pkcs15-pin.c, iso7816.c, sc.c).                                        *)
(*                                                                         *)
(*   Spec       the PKCS#15 PIN operations as whole calls, one caller      *)
(*   SpecSW     the status word classification, over every (sw1, sw2)      *)
(*   SpecVal    _validate_pin over a grid of PIN attributes and lengths    *)
(*   SpecClear  sc_pkcs15_pincache_clear over long object lists            *)
(*   SpecConc   the same calls APDU by APDU, several threads               *)
(*   SpecFile   sc_file: ACL entries, attributes, sc_file_dup              *)
(*   SpecApdu   SELECT FILE, PSO and GET CHALLENGE as APDUs                *)
(*   SpecUtil   paths, OIDs, big-endian conversion, the ATR                *)
(*   SpecAodf   an AODF entry decoded, encoded and decoded again           *)
(*   SpecCache  the pin cache and the card lock, several threads           *)
(*   SpecUnblock  the two halves of the PIN command of unblock_pin         *)
(*   SpecPinBuf the staging buffer of the ISO 7816 PIN commands            *)
(*   SpecSse    iso7816_set_security_env as the APDUs it sends             *)
(*   SpecLock   the PIN calls and set_security_env with their checks and   *)
(*              the lock count of the caller                               *)
(***************************************************************************)
EXTENDS Integers, Sequences, FiniteSets, TLC

VARIABLES
    p15card,    \* struct sc_pkcs15_card: opts and obj_list
    reader,     \* card->reader: capabilities
    token,      \* the chip behind the reader: reference data and retry counters
    lock,       \* card lock: owner and lock_count
    last,       \* the last completed call: operation, arguments, result
    thr,        \* per thread: the call in progress and its position
    wire,       \* APDUs handed to the reader, by call
    call,       \* arguments of a pure function under test
    ret,        \* its result
    file        \* an sc_file, the copy sc_file_dup made of it, the last call on it

vars == <<p15card, reader, token, lock, last, thr, wire, call, ret, file>>

(***************************************************************************)
(* Bounds of the model.                                                    *)
(***************************************************************************)
MaxCounter == 2         \* opts.pin_cache_counter ranges over 0 .. MaxCounter
MaxTries == 1           \* retry counter of the chip for each reference
NumThreads == 2         \* threads that use the card in SpecConc
MaxChallenge == 17      \* get_challenge is asked for 0 .. MaxChallenge bytes
MaxOidLen == 4          \* sc_format_oid is given every string of 0 .. MaxOidLen characters
MaxAtrTail == 3         \* an ATR has 0 .. MaxAtrTail bytes after T0

(***************************************************************************)
(* Error codes (errors.h), by name.                                        *)
(***************************************************************************)
SC_SUCCESS == "SC_SUCCESS"
SC_ERROR_TRANSMIT_FAILED == "SC_ERROR_TRANSMIT_FAILED"
SC_ERROR_READER_LOCKED == "SC_ERROR_READER_LOCKED"
SC_ERROR_UNKNOWN_REPLY == "SC_ERROR_UNKNOWN_REPLY"
SC_ERROR_WRONG_LENGTH == "SC_ERROR_WRONG_LENGTH"
SC_ERROR_SECURITY_STATUS_NOT_SATISFIED == "SC_ERROR_SECURITY_STATUS_NOT_SATISFIED"
SC_ERROR_AUTH_METHOD_BLOCKED == "SC_ERROR_AUTH_METHOD_BLOCKED"
SC_ERROR_NOT_SUPPORTED == "SC_ERROR_NOT_SUPPORTED"
SC_ERROR_FILE_NOT_FOUND == "SC_ERROR_FILE_NOT_FOUND"
SC_ERROR_RECORD_NOT_FOUND == "SC_ERROR_RECORD_NOT_FOUND"
SC_ERROR_INVALID_ARGUMENTS == "SC_ERROR_INVALID_ARGUMENTS"
SC_ERROR_CLASS_NOT_SUPPORTED == "SC_ERROR_CLASS_NOT_SUPPORTED"
SC_ERROR_PIN_CODE_INCORRECT == "SC_ERROR_PIN_CODE_INCORRECT"
SC_ERROR_BUFFER_TOO_SMALL == "SC_ERROR_BUFFER_TOO_SMALL"
SC_ERROR_INVALID_PIN_LENGTH == "SC_ERROR_INVALID_PIN_LENGTH"
SC_ERROR_OBJECT_NOT_FOUND == "SC_ERROR_OBJECT_NOT_FOUND"

\* the null pointer, told apart from every byte string
NULL == <<-1>>
NoRet == [fn |-> "none"]
NoFile == [magic |-> 0]

(***************************************************************************)
(* iso7816.c: status words.                                                *)
(***************************************************************************)
iso7816_errors == <<
    <<\H6200, SC_ERROR_UNKNOWN_REPLY>>,
    <<\H6281, SC_ERROR_UNKNOWN_REPLY>>,
    <<\H6282, SC_ERROR_UNKNOWN_REPLY>>,
    <<\H6283, SC_ERROR_UNKNOWN_REPLY>>,
    <<\H6284, SC_ERROR_UNKNOWN_REPLY>>,
    <<\H6300, SC_ERROR_UNKNOWN_REPLY>>,
    <<\H6381, SC_ERROR_UNKNOWN_REPLY>>,
    <<\H6581, SC_ERROR_UNKNOWN_REPLY>>,
    <<\H6700, SC_ERROR_WRONG_LENGTH>>,
    <<\H6800, SC_ERROR_UNKNOWN_REPLY>>,
    <<\H6881, SC_ERROR_UNKNOWN_REPLY>>,
    <<\H6882, SC_ERROR_UNKNOWN_REPLY>>,
    <<\H6900, SC_ERROR_UNKNOWN_REPLY>>,
    <<\H6981, SC_ERROR_UNKNOWN_REPLY>>,
    <<\H6982, SC_ERROR_SECURITY_STATUS_NOT_SATISFIED>>,
    <<\H6983, SC_ERROR_AUTH_METHOD_BLOCKED>>,
    <<\H6984, SC_ERROR_UNKNOWN_REPLY>>,
    <<\H6985, SC_ERROR_UNKNOWN_REPLY>>,
    <<\H6986, SC_ERROR_UNKNOWN_REPLY>>,
    <<\H6987, SC_ERROR_UNKNOWN_REPLY>>,
    <<\H6988, SC_ERROR_UNKNOWN_REPLY>>,
    <<\H6A00, SC_ERROR_UNKNOWN_REPLY>>,
    <<\H6A80, SC_ERROR_UNKNOWN_REPLY>>,
    <<\H6A81, SC_ERROR_NOT_SUPPORTED>>,
    <<\H6A82, SC_ERROR_FILE_NOT_FOUND>>,
    <<\H6A83, SC_ERROR_RECORD_NOT_FOUND>>,
    <<\H6A84, SC_ERROR_UNKNOWN_REPLY>>,
    <<\H6A85, SC_ERROR_INVALID_ARGUMENTS>>,
    <<\H6A86, SC_ERROR_INVALID_ARGUMENTS>>,
    <<\H6A87, SC_ERROR_INVALID_ARGUMENTS>>,
    <<\H6A88, SC_ERROR_UNKNOWN_REPLY>>,
    <<\H6B00, SC_ERROR_UNKNOWN_REPLY>>,
    <<\H6D00, SC_ERROR_NOT_SUPPORTED>>,
    <<\H6E00, SC_ERROR_CLASS_NOT_SUPPORTED>>,
    <<\H6F00, SC_ERROR_UNKNOWN_REPLY>> >>

\* the first table entry whose SWs equals (sw1 << 8) | sw2, or 0 when none
RECURSIVE iso7816_errors_find(_, _)
iso7816_errors_find(i, sws) ==
    IF i > Len(iso7816_errors) THEN 0
    ELSE IF iso7816_errors[i][1] = sws THEN i
    ELSE iso7816_errors_find(i + 1, sws)

\* variant: an unlisted status word is taken for a success
iso7816_check_sw_lenient(sw1, sw2) ==
    IF sw1 = \H6C THEN SC_ERROR_WRONG_LENGTH
    ELSE IF sw1 = \H90 THEN SC_SUCCESS
    ELSE LET i == iso7816_errors_find(1, sw1 * 256 + sw2)
         IN  IF i # 0 THEN iso7816_errors[i][2] ELSE SC_SUCCESS

iso7816_check_sw(sw1, sw2) ==
    IF sw1 = \H6C THEN SC_ERROR_WRONG_LENGTH
    ELSE IF sw1 = \H90 THEN SC_SUCCESS
    ELSE LET i == iso7816_errors_find(1, sw1 * 256 + sw2)
         IN  IF i # 0 THEN iso7816_errors[i][2] ELSE SC_ERROR_UNKNOWN_REPLY

(***************************************************************************)
(* A response of the reader to one APDU: r is the result of                *)
(* sc_transmit_apdu, sw1 and sw2 are meaningful when r is SC_SUCCESS.      *)
(* The out-parameter tries_left is a record: ptr tells whether the caller  *)
(* passed a non-NULL pointer, val is the int it points to, wrote whether   *)
(* the call stored into it.                                                *)
(***************************************************************************)
Resp(r, sw1, sw2) == [r |-> r, sw1 |-> sw1, sw2 |-> sw2]

SC_MAX_APDU_BUFFER_SIZE == 261

\* variant: 63C0, no tries left, is reported as a blocked PIN
iso7816_verify_c0blocked(type, pinlen, resp, tries_left) ==
    IF pinlen >= SC_MAX_APDU_BUFFER_SIZE
    THEN [r |-> SC_ERROR_INVALID_ARGUMENTS, tries_left |-> tries_left]
    ELSE IF type # "SC_AC_CHV"
    THEN [r |-> SC_ERROR_INVALID_ARGUMENTS, tries_left |-> tries_left]
    ELSE IF resp.r # SC_SUCCESS THEN [r |-> resp.r, tries_left |-> tries_left]
    ELSE IF resp.sw1 = \H63 THEN
        [r |-> IF resp.sw2 = \HC0 THEN SC_ERROR_AUTH_METHOD_BLOCKED
               ELSE SC_ERROR_PIN_CODE_INCORRECT,
         tries_left |-> IF (resp.sw2 \div 16) * 16 = \HC0 /\ tries_left.ptr
                        THEN [tries_left EXCEPT !.val = resp.sw2 % 16, !.wrote = TRUE]
                        ELSE tries_left]
    ELSE [r |-> iso7816_check_sw(resp.sw1, resp.sw2), tries_left |-> tries_left]

iso7816_verify(type, pinlen, resp, tries_left) ==
    IF pinlen >= SC_MAX_APDU_BUFFER_SIZE
    THEN [r |-> SC_ERROR_INVALID_ARGUMENTS, tries_left |-> tries_left]
    ELSE IF type # "SC_AC_CHV"
    THEN [r |-> SC_ERROR_INVALID_ARGUMENTS, tries_left |-> tries_left]
    ELSE IF resp.r # SC_SUCCESS THEN [r |-> resp.r, tries_left |-> tries_left]
    ELSE IF resp.sw1 = \H63 THEN
        [r |-> SC_ERROR_PIN_CODE_INCORRECT,
         tries_left |-> IF (resp.sw2 \div 16) * 16 = \HC0 /\ tries_left.ptr
                        THEN [tries_left EXCEPT !.val = resp.sw2 % 16, !.wrote = TRUE]
                        ELSE tries_left]
    ELSE [r |-> iso7816_check_sw(resp.sw1, resp.sw2), tries_left |-> tries_left]

iso7816_change_reference_data(type, oldlen, newlen, resp, tries_left) ==
    IF oldlen + newlen >= SC_MAX_APDU_BUFFER_SIZE
    THEN [r |-> SC_ERROR_INVALID_ARGUMENTS, tries_left |-> tries_left]
    ELSE IF type # "SC_AC_CHV"
    THEN [r |-> SC_ERROR_INVALID_ARGUMENTS, tries_left |-> tries_left]
    ELSE IF resp.r # SC_SUCCESS THEN [r |-> resp.r, tries_left |-> tries_left]
    ELSE IF resp.sw1 = \H63 /\ (resp.sw2 \div 16) * 16 = \HC0 THEN
        [r |-> SC_ERROR_PIN_CODE_INCORRECT,
         tries_left |-> IF tries_left.ptr
                        THEN [tries_left EXCEPT !.val = resp.sw2 % 16, !.wrote = TRUE]
                        ELSE tries_left]
    ELSE [r |-> iso7816_check_sw(resp.sw1, resp.sw2), tries_left |-> tries_left]

iso7816_reset_retry_counter(type, puklen, newlen, resp) ==
    IF puklen + newlen >= SC_MAX_APDU_BUFFER_SIZE THEN SC_ERROR_INVALID_ARGUMENTS
    ELSE IF type # "SC_AC_CHV" THEN SC_ERROR_INVALID_ARGUMENTS
    ELSE IF resp.r # SC_SUCCESS THEN resp.r
    ELSE iso7816_check_sw(resp.sw1, resp.sw2)

(***************************************************************************)
(* pkcs15.h: objects and authentication info.  An identifier               *)
(* (sc_pkcs15_id) and a PIN are byte sequences; a NULL pointer is NULL.    *)
(***************************************************************************)
SC_MAX_PIN_SIZE == 256
SC_PKCS15_PIN_AUTH_TYPE_PIN == 0
SC_PKCS15_PIN_AUTH_TYPE_BIOMETRIC == 1
SC_PKCS15_TYPE_PRKEY_RSA == "SC_PKCS15_TYPE_PRKEY_RSA"
SC_PKCS15_TYPE_AUTH_PIN == "SC_PKCS15_TYPE_AUTH_PIN"
SC_READER_CAP_PIN_PAD == "SC_READER_CAP_PIN_PAD"
SC_AC_CHV == "SC_AC_CHV"

PinLen(pin) == IF pin = NULL THEN 0 ELSE Len(pin)

\* struct sc_pkcs15_auth_info with the PIN variant of attrs
AuthInfo(id, path_len, auth_type, min, stored, max, ref) ==
    [auth_id |-> id, path_len |-> path_len, auth_type |-> auth_type,
     auth_method |-> SC_AC_CHV,
     attrs |-> [min_length |-> min, stored_length |-> stored,
                max_length |-> max, reference |-> ref],
     tries_left |-> -1]

\* struct sc_pkcs15_object
Object(type, auth_id, user_consent, data) ==
    [type |-> type, auth_id |-> auth_id, user_consent |-> user_consent,
     usage_counter |-> 0, content |-> NULL, data |-> data]

HasPinPad(rd) == SC_READER_CAP_PIN_PAD \in rd.capabilities

sc_pkcs15_compare_id(id1, id2) == id1 = id2

\* the object holds content: content.value != NULL and content.len != 0
HasContent(obj) == obj.content # NULL /\ PinLen(obj.content) # 0

sc_pkcs15_free_object_content(obj) == [obj EXCEPT !.content = NULL]

\* an empty value releases the content, anything else replaces it by a copy
sc_pkcs15_allocate_object_content(obj, value) ==
    IF value = NULL \/ PinLen(value) = 0
    THEN sc_pkcs15_free_object_content(obj)
    ELSE [obj EXCEPT !.content = value]

\* index of the first authentication object whose own auth_id is id, 0 when there is none
RECURSIVE find_pin_from(_, _, _)
find_pin_from(objs, i, id) ==
    IF i > Len(objs) THEN 0
    ELSE IF objs[i].type = SC_PKCS15_TYPE_AUTH_PIN
            /\ sc_pkcs15_compare_id(objs[i].data.auth_id, id) THEN i
    ELSE find_pin_from(objs, i + 1, id)

sc_pkcs15_find_pin_by_auth_id(p15, id) == find_pin_from(p15.obj_list, 1, id)

\* the indices of the first ret_size objects of the given type, in list order
RECURSIVE get_objects_from(_, _, _, _)
get_objects_from(objs, i, type, ret_size) ==
    IF i > Len(objs) \/ ret_size = 0 THEN <<>>
    ELSE IF objs[i].type = type
         THEN <<i>> \o get_objects_from(objs, i + 1, type, ret_size - 1)
         ELSE get_objects_from(objs, i + 1, type, ret_size)

sc_pkcs15_get_objects(p15, type, ret_size) ==
    get_objects_from(p15.obj_list, 1, type, ret_size)

(***************************************************************************)
(* pkcs15-pin.c                                                            *)
(***************************************************************************)
\* variant: the PIN-pad test comes before the stored_length test
validate_pin_padfirst(rd, auth_info, pinlen) ==
    IF auth_info.auth_type # SC_PKCS15_PIN_AUTH_TYPE_PIN THEN SC_SUCCESS
    ELSE IF HasPinPad(rd) THEN SC_SUCCESS
    ELSE IF auth_info.attrs.stored_length > SC_MAX_PIN_SIZE THEN SC_ERROR_BUFFER_TOO_SMALL
    ELSE LET max_length == IF auth_info.attrs.max_length # 0
                           THEN auth_info.attrs.max_length ELSE SC_MAX_PIN_SIZE
         IN  IF pinlen > max_length \/ pinlen < auth_info.attrs.min_length
             THEN SC_ERROR_INVALID_PIN_LENGTH
             ELSE SC_SUCCESS

_validate_pin(rd, auth_info, pinlen) ==
    IF auth_info.auth_type # SC_PKCS15_PIN_AUTH_TYPE_PIN THEN SC_SUCCESS
    ELSE IF auth_info.attrs.stored_length > SC_MAX_PIN_SIZE THEN SC_ERROR_BUFFER_TOO_SMALL
    ELSE IF HasPinPad(rd) THEN SC_SUCCESS
    ELSE LET max_length == IF auth_info.attrs.max_length # 0
                           THEN auth_info.attrs.max_length ELSE SC_MAX_PIN_SIZE
         IN  IF pinlen > max_length \/ pinlen < auth_info.attrs.min_length
             THEN SC_ERROR_INVALID_PIN_LENGTH
             ELSE SC_SUCCESS

\* does the PIN object p protect an object that demands user consent
ProtectsUserConsent(p15, p) ==
    \E i \in DOMAIN p15.obj_list :
        /\ sc_pkcs15_compare_id(p15.obj_list[i].auth_id, p15.obj_list[p].data.auth_id)
        /\ p15.obj_list[i].user_consent > 0

\* variant: the user-consent scan is left out
sc_pkcs15_pincache_add_noscan(p15, p, pin) ==
    IF ~p15.opts.use_pin_cache THEN p15
    ELSE [p15 EXCEPT !.obj_list[p] =
            [sc_pkcs15_allocate_object_content(@, pin) EXCEPT !.usage_counter = 0]]

sc_pkcs15_pincache_add(p15, p, pin) ==
    IF ~p15.opts.use_pin_cache THEN p15
    ELSE IF ProtectsUserConsent(p15, p) THEN p15
    ELSE [p15 EXCEPT !.obj_list[p] =
            [sc_pkcs15_allocate_object_content(@, pin) EXCEPT !.usage_counter = 0]]

\* successful revalidations in a row that the model follows
MaxRun == MaxCounter + 1

(***************************************************************************)
(* The chip and the reader, as far as the PIN commands see them.  token    *)
(* maps a PIN reference to the reference data the chip holds and to its    *)
(* retry counter.  e collects what the call cannot control: out tells      *)
(* whether sc_lock, SELECT or the transmission fails and whether the chip  *)
(* reports a wrong PIN as 63Cx or as plain 6300; padpin and padpin2 are    *)
(* what the user types on a PIN pad.                                       *)
(***************************************************************************)
\* the PIN values in play: two distinct one-byte strings
PinValues == {<<1>>, <<2>>}
PukValue == <<1>>


\* reaches: whether the call gets as far as sc_lock; typed1, typed2: whether
\* the first and the second PIN come from the PIN pad.  What is typed is
\* looked at only when the PIN command reaches the chip.
Envs(reaches, typed1, typed2) ==
    IF ~reaches THEN {[out |-> "ok", padpin |-> <<1>>, padpin2 |-> <<1>>]}
    ELSE [out : {"lock", "select", "tx"}, padpin : {<<1>>}, padpin2 : {<<1>>}]
         \cup [out : {"ok", "ok6300"},
               padpin : IF typed1 THEN PinValues ELSE {<<1>>},
               padpin2 : IF typed2 THEN PinValues ELSE {<<1>>}]

WrongPin(tok, ref, e) ==
    LET left == tok[ref].tries - 1
    IN  [token |-> [tok EXCEPT ![ref].tries = left],
         resp |-> IF e.out # "ok6300" THEN Resp(SC_SUCCESS, \H63, \HC0 + left)
                  ELSE Resp(SC_SUCCESS, \H63, \H00)]

CardVerify(tok, ref, pin, e) ==
    IF e.out = "tx" THEN [token |-> tok, resp |-> Resp(SC_ERROR_TRANSMIT_FAILED, 0, 0)]
    ELSE IF tok[ref].tries = 0 THEN [token |-> tok, resp |-> Resp(SC_SUCCESS, \H69, \H83)]
    ELSE IF pin = tok[ref].value
    THEN [token |-> [tok EXCEPT ![ref].tries = MaxTries], resp |-> Resp(SC_SUCCESS, \H90, \H00)]
    ELSE WrongPin(tok, ref, e)

CardChange(tok, ref, old, new, e) ==
    IF e.out = "tx" THEN [token |-> tok, resp |-> Resp(SC_ERROR_TRANSMIT_FAILED, 0, 0)]
    ELSE IF tok[ref].tries = 0 THEN [token |-> tok, resp |-> Resp(SC_SUCCESS, \H69, \H83)]
    ELSE IF old = tok[ref].value
    THEN [token |-> [tok EXCEPT ![ref] = [value |-> new, tries |-> MaxTries]],
          resp |-> Resp(SC_SUCCESS, \H90, \H00)]
    ELSE WrongPin(tok, ref, e)

CardUnblock(tok, ref, puk, new, e) ==
    IF e.out = "tx" THEN [token |-> tok, resp |-> Resp(SC_ERROR_TRANSMIT_FAILED, 0, 0)]
    ELSE IF puk = PukValue
    THEN [token |-> [tok EXCEPT ![ref] = [value |-> new, tries |-> MaxTries]],
          resp |-> Resp(SC_SUCCESS, \H90, \H00)]
    ELSE [token |-> tok, resp |-> Resp(SC_SUCCESS, \H69, \H82)]

\* sc_pin_cmd: hands the command to the card driver's operation
sc_pin_cmd(data, tries_left, resp) ==
    CASE data.cmd = "SC_PIN_CMD_VERIFY" ->
            iso7816_verify(data.pin_type, data.pin1len, resp, tries_left)
      [] data.cmd = "SC_PIN_CMD_CHANGE" ->
            iso7816_change_reference_data(data.pin_type, data.pin1len, data.pin2len,
                                          resp, tries_left)
      [] data.cmd = "SC_PIN_CMD_UNBLOCK" ->
            [r |-> iso7816_reset_retry_counter(data.pin_type, data.pin1len, data.pin2len, resp),
             tries_left |-> tries_left]

TriesPtr(auth_info) == [ptr |-> TRUE, val |-> auth_info.tries_left, wrote |-> FALSE]

SetTries(p15, p, tl) == [p15 EXCEPT !.obj_list[p].data.tries_left = tl.val]

Done(p15, tok, r) == [p15card |-> p15, token |-> tok, r |-> r]

\* what goes to the chip for a PIN argument: the bytes given, or the pad's
Sent(use_pinpad, pin, typed) ==
    IF use_pinpad THEN typed ELSE IF pin = NULL THEN <<>> ELSE pin

\* SC_PIN_CMD_USE_PINPAD as each of the three calls sets it
VerifyUsesPinpad(rd, pincode) == HasPinPad(rd) /\ pincode = NULL /\ PinLen(pincode) = 0
ChangeUsesPinpad(rd, oldpin, newpin) == (oldpin = NULL \/ newpin = NULL) /\ HasPinPad(rd)
UnblockUsesPinpad(rd) == HasPinPad(rd)

\* the checks each call makes before it takes the card lock
verify_pin_check(rd, auth_info, pinlen) ==
    IF auth_info.auth_type # SC_PKCS15_PIN_AUTH_TYPE_PIN THEN SC_ERROR_NOT_SUPPORTED
    ELSE _validate_pin(rd, auth_info, pinlen)

change_pin_check(rd, auth_info, oldpinlen, newpinlen) ==
    IF auth_info.auth_type # SC_PKCS15_PIN_AUTH_TYPE_PIN THEN SC_ERROR_NOT_SUPPORTED
    ELSE IF _validate_pin(rd, auth_info, oldpinlen) # SC_SUCCESS
    THEN _validate_pin(rd, auth_info, oldpinlen)
    ELSE _validate_pin(rd, auth_info, newpinlen)

\* the PUK object is the one that protects the PIN object, if there is one
PukInfo(p15, p) ==
    LET puk_obj == sc_pkcs15_find_pin_by_auth_id(p15, p15.obj_list[p].auth_id)
    IN  IF puk_obj # 0 THEN p15.obj_list[puk_obj].data ELSE p15.obj_list[p].data

unblock_pin_check(rd, auth_info, puk_info, puklen, newpinlen) ==
    IF auth_info.auth_type # SC_PKCS15_PIN_AUTH_TYPE_PIN THEN SC_ERROR_NOT_SUPPORTED
    ELSE IF _validate_pin(rd, auth_info, newpinlen) # SC_SUCCESS
    THEN _validate_pin(rd, auth_info, newpinlen)
    ELSE _validate_pin(rd, puk_info, puklen)

sc_pkcs15_verify_pin(p15, rd, tok, p, pincode, e) ==
    LET auth_info == p15.obj_list[p].data
        pinlen == PinLen(pincode)
    IN  IF verify_pin_check(rd, auth_info, pinlen) # SC_SUCCESS
        THEN Done(p15, tok, verify_pin_check(rd, auth_info, pinlen))
        ELSE IF e.out = "lock" THEN Done(p15, tok, SC_ERROR_READER_LOCKED)
        ELSE IF auth_info.path_len > 0 /\ e.out = "select"
        THEN Done(p15, tok, SC_ERROR_FILE_NOT_FOUND)
        ELSE
        LET use_pinpad == VerifyUsesPinpad(rd, pincode)
            data == [cmd |-> "SC_PIN_CMD_VERIFY", pin_type |-> auth_info.auth_method,
                     pin1len |-> pinlen, pin2len |-> 0]
            c == CardVerify(tok, auth_info.attrs.reference,
                            Sent(use_pinpad, pincode, e.padpin), e)
            pc == sc_pin_cmd(data, TriesPtr(auth_info), c.resp)
            p15a == SetTries(p15, p, pc.tries_left)
        IN  Done(IF pc.r = SC_SUCCESS THEN sc_pkcs15_pincache_add(p15a, p, pincode) ELSE p15a,
                 c.token, pc.r)

sc_pkcs15_change_pin(p15, rd, tok, p, oldpin, newpin, e) ==
    LET auth_info == p15.obj_list[p].data
    IN  IF change_pin_check(rd, auth_info, PinLen(oldpin), PinLen(newpin)) # SC_SUCCESS
        THEN Done(p15, tok, change_pin_check(rd, auth_info, PinLen(oldpin), PinLen(newpin)))
        ELSE IF e.out = "lock" THEN Done(p15, tok, SC_ERROR_READER_LOCKED)
        ELSE IF auth_info.path_len > 0 /\ e.out = "select"
        THEN Done(p15, tok, SC_ERROR_FILE_NOT_FOUND)
        ELSE
        LET use_pinpad == ChangeUsesPinpad(rd, oldpin, newpin)
            data == [cmd |-> "SC_PIN_CMD_CHANGE", pin_type |-> SC_AC_CHV,
                     pin1len |-> PinLen(oldpin), pin2len |-> PinLen(newpin)]
            c == CardChange(tok, auth_info.attrs.reference,
                            Sent(use_pinpad, oldpin, e.padpin),
                            Sent(use_pinpad, newpin, e.padpin2), e)
            pc == sc_pin_cmd(data, TriesPtr(auth_info), c.resp)
            p15a == SetTries(p15, p, pc.tries_left)
        IN  Done(IF pc.r = SC_SUCCESS THEN sc_pkcs15_pincache_add(p15a, p, newpin) ELSE p15a,
                 c.token, pc.r)

sc_pkcs15_unblock_pin(p15, rd, tok, p, puk, newpin, e) ==
    LET pin_obj == p15.obj_list[p]
        auth_info == pin_obj.data
        puk_info == PukInfo(p15, p)
        chk == unblock_pin_check(rd, auth_info, puk_info, PinLen(puk), PinLen(newpin))
    IN  IF chk # SC_SUCCESS
        THEN Done(p15, tok, chk)
        ELSE IF e.out = "lock" THEN Done(p15, tok, SC_ERROR_READER_LOCKED)
        ELSE IF auth_info.path_len > 0 /\ e.out = "select"
        THEN Done(p15, tok, SC_ERROR_FILE_NOT_FOUND)
        ELSE
        LET use_pinpad == UnblockUsesPinpad(rd)
            data == [cmd |-> "SC_PIN_CMD_UNBLOCK", pin_type |-> SC_AC_CHV,
                     pin1len |-> PinLen(puk), pin2len |-> PinLen(newpin)]
            c == CardUnblock(tok, auth_info.attrs.reference,
                             Sent(use_pinpad, puk, e.padpin),
                             Sent(use_pinpad, newpin, e.padpin2), e)
            pc == sc_pin_cmd(data, TriesPtr(auth_info), c.resp)
            p15a == SetTries(p15, p, pc.tries_left)
        IN  Done(IF pc.r = SC_SUCCESS THEN sc_pkcs15_pincache_add(p15a, p, newpin) ELSE p15a,
                 c.token, pc.r)

Revalidated(p15, tok, r, pin_obj, reverify) ==
    [p15card |-> p15, token |-> tok, r |-> r, pin_obj |-> pin_obj, reverify |-> reverify]

\* variant: a failed re-verify hands its error up and keeps the content
sc_pkcs15_pincache_revalidate_passthru(p15, rd, tok, o, e) ==
    LET obj == p15.obj_list[o]
        pin_obj == sc_pkcs15_find_pin_by_auth_id(p15, obj.auth_id)
    IN  IF ~p15.opts.use_pin_cache \/ obj.user_consent # 0 \/ HasPinPad(rd) \/ pin_obj = 0
        THEN Revalidated(p15, tok, SC_ERROR_SECURITY_STATUS_NOT_SATISFIED, pin_obj, "none")
        ELSE IF p15.obj_list[pin_obj].usage_counter >= p15.opts.pin_cache_counter
        THEN Revalidated([p15 EXCEPT !.obj_list[pin_obj] = sc_pkcs15_free_object_content(@)],
                         tok, SC_ERROR_SECURITY_STATUS_NOT_SATISFIED, pin_obj, "none")
        ELSE IF ~HasContent(p15.obj_list[pin_obj])
        THEN Revalidated(p15, tok, SC_ERROR_SECURITY_STATUS_NOT_SATISFIED, pin_obj, "none")
        ELSE
        LET p15a == [p15 EXCEPT !.obj_list[pin_obj].usage_counter = @ + 1]
            v == sc_pkcs15_verify_pin(p15a, rd, tok, pin_obj, p15a.obj_list[pin_obj].content, e)
        IN  IF v.r # SC_SUCCESS
            THEN Revalidated(v.p15card, v.token, v.r, pin_obj, "fail")
            ELSE Revalidated(v.p15card, v.token, SC_SUCCESS, pin_obj, "ok")

sc_pkcs15_pincache_revalidate(p15, rd, tok, o, e) ==
    LET obj == p15.obj_list[o]
        pin_obj == sc_pkcs15_find_pin_by_auth_id(p15, obj.auth_id)
    IN  IF ~p15.opts.use_pin_cache
        THEN Revalidated(p15, tok, SC_ERROR_SECURITY_STATUS_NOT_SATISFIED, 0, "none")
        ELSE IF obj.user_consent # 0
        THEN Revalidated(p15, tok, SC_ERROR_SECURITY_STATUS_NOT_SATISFIED, 0, "none")
        ELSE IF HasPinPad(rd)
        THEN Revalidated(p15, tok, SC_ERROR_SECURITY_STATUS_NOT_SATISFIED, 0, "none")
        ELSE IF pin_obj = 0
        THEN Revalidated(p15, tok, SC_ERROR_SECURITY_STATUS_NOT_SATISFIED, 0, "none")
        ELSE IF p15.obj_list[pin_obj].usage_counter >= p15.opts.pin_cache_counter
        THEN Revalidated([p15 EXCEPT !.obj_list[pin_obj] = sc_pkcs15_free_object_content(@)],
                         tok, SC_ERROR_SECURITY_STATUS_NOT_SATISFIED, pin_obj, "none")
        ELSE IF ~HasContent(p15.obj_list[pin_obj])
        THEN Revalidated(p15, tok, SC_ERROR_SECURITY_STATUS_NOT_SATISFIED, pin_obj, "none")
        ELSE
        LET p15a == [p15 EXCEPT !.obj_list[pin_obj].usage_counter = @ + 1]
            v == sc_pkcs15_verify_pin(p15a, rd, tok, pin_obj, p15a.obj_list[pin_obj].content, e)
        IN  IF v.r # SC_SUCCESS
            THEN Revalidated([v.p15card EXCEPT !.obj_list[pin_obj] =
                                 sc_pkcs15_free_object_content(@)],
                             v.token, SC_ERROR_SECURITY_STATUS_NOT_SATISFIED, pin_obj, "fail")
            ELSE Revalidated(v.p15card, v.token, SC_SUCCESS, pin_obj, "ok")

\* capacity of the objs array of sc_pkcs15_pincache_clear
PincacheClearObjs == 32

sc_pkcs15_pincache_clear(p15) ==
    LET objs == sc_pkcs15_get_objects(p15, SC_PKCS15_TYPE_AUTH_PIN, PincacheClearObjs)
        hit == {objs[i] : i \in 1..Len(objs)}
    IN  [p15 EXCEPT !.obj_list =
            [i \in DOMAIN p15.obj_list |->
                IF i \in hit THEN sc_pkcs15_free_object_content(p15.obj_list[i])
                ELSE p15.obj_list[i]]]

(***************************************************************************)
(* Spec: a token with a user PIN (own id <<1>>, selected by path,          *)
(* protected by the authentication object <<2>>), a biometric              *)
(* authentication object (own id <<2>>), a private key behind the PIN      *)
(* whose user-consent attribute varies, and a private key behind <<2>>     *)
(* that demands user consent.  The options, the reader and the object      *)
(* list are fixed when the card is bound.                                  *)
(***************************************************************************)
PinArgs == {NULL} \cup PinValues

ObjList(uc1) == <<
    Object(SC_PKCS15_TYPE_AUTH_PIN, <<2>>, 0,
           AuthInfo(<<1>>, 2, SC_PKCS15_PIN_AUTH_TYPE_PIN, 1, 2, 2, 1)),
    Object(SC_PKCS15_TYPE_AUTH_PIN, <<>>, 0,
           AuthInfo(<<2>>, 0, SC_PKCS15_PIN_AUTH_TYPE_BIOMETRIC, 0, 0, 0, 2)),
    Object(SC_PKCS15_TYPE_PRKEY_RSA, <<1>>, uc1, NULL),
    Object(SC_PKCS15_TYPE_PRKEY_RSA, <<2>>, 1, NULL) >>

AuthObjs(p15) == {i \in DOMAIN p15.obj_list : p15.obj_list[i].type = SC_PKCS15_TYPE_AUTH_PIN}

NoLast == [op |-> "none", pin_obj |-> 0, pin |-> NULL, r |-> SC_SUCCESS,
           reverify |-> "none", run |-> 0]

Threads == 1..NumThreads
Idle == [op |-> "idle", at |-> "idle", obj |-> 0, se_num |-> 0, datalen |-> 0,
         locked |-> 0, sent |-> 0]
IdleThr == [t \in Threads |-> Idle]
IdleWire == [tx |-> 0]
NoLock == [owner |-> 0, count |-> 0]
NoCall == [fn |-> "none"]

Init ==
    /\ \E upc \in BOOLEAN, cnt \in 0..MaxCounter, uc1 \in 0..1 :
          p15card = [opts |-> [use_pin_cache |-> upc, pin_cache_counter |-> cnt],
                     obj_list |-> ObjList(uc1)]
    /\ \E pad \in BOOLEAN :
          reader = [capabilities |-> IF pad THEN {SC_READER_CAP_PIN_PAD} ELSE {}]
    /\ token = [ref \in 1..1 |-> [value |-> <<1>>, tries |-> MaxTries]]
    /\ lock = NoLock
    /\ last = NoLast
    /\ thr = IdleThr
    /\ wire = IdleWire
    /\ call = NoCall
    /\ ret = NoRet
    /\ file = NoFile

\* the number of successful revalidations in a row against one PIN object,
\* counted from the call that last put content into it
RunAfter(op, res, pin_obj) ==
    IF op = "pincache_revalidate" /\ pin_obj # 0 /\ pin_obj = last.pin_obj
       /\ last.op \notin {"none", "pincache_clear"}
    THEN IF res.r = SC_SUCCESS THEN last.run + 1 ELSE last.run
    ELSE 0

Commit(op, o, pin, res, pin_obj, reverify) ==
    /\ p15card' = res.p15card
    /\ token' = res.token
    /\ last' = [op |-> op, pin_obj |-> pin_obj, pin |-> pin, r |-> res.r,
                reverify |-> reverify, run |-> RunAfter(op, res, pin_obj)]
    /\ UNCHANGED <<reader, lock, thr, wire, call, ret, file>>

VerifyPin ==
    \E p \in AuthObjs(p15card), pincode \in PinArgs :
    \E e \in Envs(verify_pin_check(reader, p15card.obj_list[p].data, PinLen(pincode)) = SC_SUCCESS,
                  VerifyUsesPinpad(reader, pincode), FALSE) :
    \E res \in {sc_pkcs15_verify_pin(p15card, reader, token, p, pincode, e)} :
        Commit("verify_pin", p, pincode, res, p, "none")

ChangePin ==
    \E p \in AuthObjs(p15card), oldpin \in PinArgs, newpin \in PinArgs :
    \E e \in Envs(change_pin_check(reader, p15card.obj_list[p].data,
                                   PinLen(oldpin), PinLen(newpin)) = SC_SUCCESS,
                  ChangeUsesPinpad(reader, oldpin, newpin),
                  ChangeUsesPinpad(reader, oldpin, newpin)) :
    \E res \in {sc_pkcs15_change_pin(p15card, reader, token, p, oldpin, newpin, e)} :
        Commit("change_pin", p, NULL, res, p, "none")

UnblockPin ==
    \E p \in AuthObjs(p15card), puk \in PinArgs, newpin \in PinArgs :
    \E e \in Envs(unblock_pin_check(reader, p15card.obj_list[p].data, PukInfo(p15card, p),
                                    PinLen(puk), PinLen(newpin)) = SC_SUCCESS,
                  UnblockUsesPinpad(reader), UnblockUsesPinpad(reader)) :
    \E res \in {sc_pkcs15_unblock_pin(p15card, reader, token, p, puk, newpin, e)} :
        Commit("unblock_pin", p, NULL, res, p, "none")

PincacheRevalidate ==
    /\ last.run < MaxRun
    /\ \E o \in DOMAIN p15card.obj_list, e \in Envs(TRUE, FALSE, FALSE) :
       \E res \in {sc_pkcs15_pincache_revalidate(p15card, reader, token, o, e)} :
           Commit("pincache_revalidate", o, NULL, res, res.pin_obj, res.reverify)

PincacheClear ==
    Commit("pincache_clear", 0, NULL,
           Done(sc_pkcs15_pincache_clear(p15card), token, SC_SUCCESS), 0, "none")

Next ==
    \/ VerifyPin
    \/ ChangePin
    \/ UnblockPin
    \/ PincacheRevalidate
    \/ PincacheClear

Spec == Init /\ [][Next]_vars

(***************************************************************************)
(* Properties of the pin cache, checked under Spec.                        *)
(***************************************************************************)
CachedPins == {i \in DOMAIN p15card.obj_list :
                  /\ p15card.obj_list[i].type = SC_PKCS15_TYPE_AUTH_PIN
                  /\ p15card.obj_list[i].content # NULL
                  /\ Len(p15card.obj_list[i].content) > 0}

\* the objects whose auth_id names the authentication object p
ProtectedBy(p) == {i \in DOMAIN p15card.obj_list :
                      p15card.obj_list[i].auth_id = p15card.obj_list[p].data.auth_id}

\* C1: a PIN object that holds cached content implies that use_pin_cache is
\* on and that no object protected by that PIN has user_consent > 0.
C1_CachedImpliesAllowed ==
    \A p \in CachedPins :
        /\ p15card.opts.use_pin_cache
        /\ \A i \in ProtectedBy(p) : ~(p15card.obj_list[i].user_consent > 0)

\* a PIN is cached and has just been replayed by a revalidation
C1_Witness ==
    /\ CachedPins # {}
    /\ last.op = "pincache_revalidate"
    /\ last.reverify = "ok"
    /\ last.pin_obj \in CachedPins

\* C2: with pin_cache_counter = L >= 1, a run of consecutive revalidations
\* after the PIN was cached succeeds at most L times.
C2_RunBounded ==
    p15card.opts.pin_cache_counter >= 1 => last.run <= p15card.opts.pin_cache_counter

\* C3: a successful verify_pin leaves the PIN uncached when caching is off,
\* the reader is a PIN pad or a protected object demands user consent, and
\* cached with the supplied bytes and usage counter 0 in every other case.
C3_VerifyCachesUnlessDenied ==
    (last.op = "verify_pin" /\ last.r = SC_SUCCESS) =>
        IF \/ ~p15card.opts.use_pin_cache
           \/ SC_READER_CAP_PIN_PAD \in reader.capabilities
           \/ \E i \in ProtectedBy(last.pin_obj) : p15card.obj_list[i].user_consent > 0
        THEN last.pin_obj \notin CachedPins
        ELSE /\ p15card.obj_list[last.pin_obj].content = last.pin
             /\ p15card.obj_list[last.pin_obj].usage_counter = 0

\* C4: pincache_revalidate returns SC_SUCCESS or
\* SC_ERROR_SECURITY_STATUS_NOT_SATISFIED and nothing else, and a failed
\* re-verify leaves the PIN object without content.
C4_RevalidateResult ==
    last.op = "pincache_revalidate" =>
        /\ last.r \in {SC_SUCCESS, SC_ERROR_SECURITY_STATUS_NOT_SATISFIED}
        /\ last.reverify = "fail" => last.pin_obj \notin CachedPins

\* a revalidation whose re-verify failed: the call answers NOT_SATISFIED and the PIN is no longer cached
C4_Witness ==
    /\ last.op = "pincache_revalidate"
    /\ last.reverify = "fail"
    /\ last.r = SC_ERROR_SECURITY_STATUS_NOT_SATISFIED
    /\ last.pin_obj \notin CachedPins

\* C27: in every state reached through verify_pin, change_pin, unblock_pin,
\* pincache_revalidate and pincache_clear, the content cached in a PIN
\* object is the PIN value the chip accepts for that PIN's reference.
C27_CachedIsCardPin ==
    \A p \in CachedPins :
        p15card.obj_list[p].content = token[p15card.obj_list[p].data.attrs.reference].value

(***************************************************************************)
(* SpecSW: one response (sw1, sw2) to a transmitted APDU, any of the       *)
(* 65536, handed to iso7816_check_sw, to iso7816_verify and to             *)
(* iso7816_change_reference_data.  call.ptr tells whether the caller       *)
(* passed a tries_left pointer, which only the handling of 63xx looks at;  *)
(* what it points to starts at -1, as the AODF decoder leaves it.          *)
(***************************************************************************)
IdleCard ==
    /\ p15card = [opts |-> [use_pin_cache |-> FALSE, pin_cache_counter |-> 0],
                  obj_list |-> <<>>]
    /\ reader = [capabilities |-> {}]
    /\ token = <<>>
    /\ lock = NoLock
    /\ last = NoLast
    /\ thr = IdleThr
    /\ wire = IdleWire

InitSW ==
    /\ IdleCard
    /\ \E sw1 \in 0..255, sw2 \in 0..255 :
       \E ptr \in IF sw1 = \H63 THEN BOOLEAN ELSE {TRUE} :
          call = [fn |-> "status word", sw1 |-> sw1, sw2 |-> sw2, ptr |-> ptr]
    /\ ret = NoRet
    /\ file = NoFile

CallTries == [ptr |-> call.ptr, val |-> -1, wrote |-> FALSE]

Return(fn, res) ==
    /\ ret' = [fn |-> fn, r |-> res.r, tries_left |-> res.tries_left]
    /\ UNCHANGED <<p15card, reader, token, lock, last, thr, wire, call, file>>

CheckSw ==
    /\ call.fn = "status word"
    /\ ret = NoRet
    /\ Return("iso7816_check_sw",
              [r |-> iso7816_check_sw(call.sw1, call.sw2), tries_left |-> CallTries])

Verify ==
    /\ call.fn = "status word"
    /\ ret = NoRet
    /\ Return("iso7816_verify",
              iso7816_verify(SC_AC_CHV, 4, Resp(SC_SUCCESS, call.sw1, call.sw2), CallTries))

ChangeReferenceData ==
    /\ call.fn = "status word"
    /\ ret = NoRet
    /\ Return("iso7816_change_reference_data",
              iso7816_change_reference_data(SC_AC_CHV, 4, 4,
                                            Resp(SC_SUCCESS, call.sw1, call.sw2), CallTries))

NextSW ==
    \/ CheckSw
    \/ Verify
    \/ ChangeReferenceData

SpecSW == InitSW /\ [][NextSW]_vars

\* the status word of the call is one the static table lists
Listed == \E i \in DOMAIN iso7816_errors : iso7816_errors[i][1] = call.sw1 * 256 + call.sw2

Is63Cx == call.sw1 = \H63 /\ call.sw2 \in \HC0..\HCF

\* C8: VERIFY turns every 63Cx into PIN_CODE_INCORRECT with tries_left = x,
\* 63C0 included, and returns AUTH_METHOD_BLOCKED for 6983 only.
C8_Verify63Cx ==
    ret.fn = "iso7816_verify" =>
        /\ Is63Cx => /\ ret.r = SC_ERROR_PIN_CODE_INCORRECT
                     /\ call.ptr => ret.tries_left.val = call.sw2 - \HC0
        /\ ret.r = SC_ERROR_AUTH_METHOD_BLOCKED => (call.sw1 = \H69 /\ call.sw2 = \H83)

\* VERIFY has answered 63C0 and reported no tries left
C8_Witness ==
    /\ ret.fn = "iso7816_verify"
    /\ call.sw1 = \H63 /\ call.sw2 = \HC0 /\ call.ptr
    /\ ret.r = SC_ERROR_PIN_CODE_INCORRECT
    /\ ret.tries_left.val = 0

\* C9: whenever VERIFY or CHANGE REFERENCE DATA returns PIN_CODE_INCORRECT,
\* tries_left has been written from the status word of that response.
C9_IncorrectCarriesTries ==
    (/\ ret.fn \in {"iso7816_verify", "iso7816_change_reference_data"}
     /\ ret.r = SC_ERROR_PIN_CODE_INCORRECT
     /\ call.ptr)
    => (ret.tries_left.wrote /\ ret.tries_left.val = call.sw2 % 16)

\* C10: the classification returns success for 9000 only, and UNKNOWN_REPLY
\* for every status word that is not 9000, 6Cxx, 63Cx or listed.
C10_SuccessOnly9000 ==
    ret.fn = "iso7816_check_sw" =>
        /\ ret.r = SC_SUCCESS => (call.sw1 = \H90 /\ call.sw2 = \H00)
        /\ (/\ ~(call.sw1 = \H90 /\ call.sw2 = \H00)
            /\ call.sw1 # \H6C
            /\ ~Is63Cx
            /\ ~Listed) => ret.r = SC_ERROR_UNKNOWN_REPLY

\* C10, amended: the classification returns success for 90xx only, and
\* UNKNOWN_REPLY for every status word that is not 90xx, 6Cxx, 63Cx or listed.
C10_SuccessOnly90xx ==
    ret.fn = "iso7816_check_sw" =>
        /\ ret.r = SC_SUCCESS => call.sw1 = \H90
        /\ (/\ call.sw1 # \H90
            /\ call.sw1 # \H6C
            /\ ~Is63Cx
            /\ ~Listed) => ret.r = SC_ERROR_UNKNOWN_REPLY

\* an unlisted status word has been classified
C10_Witness ==
    /\ ret.fn = "iso7816_check_sw"
    /\ call.sw1 = \H6A /\ call.sw2 = \H89
    /\ ret.r = SC_ERROR_UNKNOWN_REPLY

(***************************************************************************)
(* SpecVal: _validate_pin over a grid of authentication types, PIN         *)
(* attributes, readers and PIN lengths, on both sides of every limit.      *)
(***************************************************************************)
ValTypes == {SC_PKCS15_PIN_AUTH_TYPE_PIN, SC_PKCS15_PIN_AUTH_TYPE_BIOMETRIC}
ValStored == {0, 8, SC_MAX_PIN_SIZE, SC_MAX_PIN_SIZE + 1}
ValMin == {0, 4}
ValMax == {0, 8, SC_MAX_PIN_SIZE + 44}
ValLens == {0, 3, 4, 8, 9, SC_MAX_PIN_SIZE, SC_MAX_PIN_SIZE + 1,
            SC_MAX_PIN_SIZE + 44, SC_MAX_PIN_SIZE + 45}

InitVal ==
    /\ IdleCard
    /\ \E ty \in ValTypes, st \in ValStored, mn \in ValMin, mx \in ValMax,
          len \in ValLens, pad \in BOOLEAN :
          call = [fn |-> "validate", pinlen |-> len, pin_pad |-> pad,
                  auth_info |-> AuthInfo(<<1>>, 0, ty, mn, st, mx, 1)]
    /\ ret = NoRet
    /\ file = NoFile

ValidatePin ==
    /\ call.fn = "validate"
    /\ ret = NoRet
    /\ Return("_validate_pin",
              [r |-> _validate_pin([capabilities |-> IF call.pin_pad
                                                     THEN {SC_READER_CAP_PIN_PAD} ELSE {}],
                                   call.auth_info, call.pinlen),
               tries_left |-> [ptr |-> FALSE, val |-> -1, wrote |-> FALSE]])

NextVal == ValidatePin

SpecVal == InitVal /\ [][NextVal]_vars

\* C7: _validate_pin decides in this order: success for a non-PIN type;
\* BUFFER_TOO_SMALL for stored_length > SC_MAX_PIN_SIZE; success with a PIN
\* pad; INVALID_PIN_LENGTH outside min_length .. (max_length or
\* SC_MAX_PIN_SIZE); success otherwise.
C7_ValidateOrder ==
    ret.fn = "_validate_pin" =>
        LET a == call.auth_info.attrs
            limit == IF a.max_length # 0 THEN a.max_length ELSE 256
        IN  IF call.auth_info.auth_type # 0 THEN ret.r = SC_SUCCESS
            ELSE IF a.stored_length > 256 THEN ret.r = SC_ERROR_BUFFER_TOO_SMALL
            ELSE IF call.pin_pad THEN ret.r = SC_SUCCESS
            ELSE IF call.pinlen < a.min_length \/ call.pinlen > limit
            THEN ret.r = SC_ERROR_INVALID_PIN_LENGTH
            ELSE ret.r = SC_SUCCESS

\* an oversized stored_length has been refused although the reader has a PIN pad
C7_Witness ==
    /\ ret.fn = "_validate_pin"
    /\ call.auth_info.auth_type = 0
    /\ call.auth_info.attrs.stored_length > 256
    /\ call.pin_pad
    /\ ret.r = SC_ERROR_BUFFER_TOO_SMALL

(***************************************************************************)
(* SpecClear: a card with n PIN objects and nothing else, caching on.      *)
(* The PINs are verified one after the other, each with its right value,   *)
(* and sc_pkcs15_pincache_clear is called at any time.                     *)
(***************************************************************************)
MaxPins == PincacheClearObjs + 1

PinList(n) ==
    [k \in 1..n |-> Object(SC_PKCS15_TYPE_AUTH_PIN, <<>>, 0,
                           AuthInfo(<<k>>, 0, SC_PKCS15_PIN_AUTH_TYPE_PIN, 1, 2, 2, k))]

InitClear ==
    /\ \E n \in 1..MaxPins :
          /\ p15card = [opts |-> [use_pin_cache |-> TRUE, pin_cache_counter |-> 1],
                        obj_list |-> PinList(n)]
          /\ token = [ref \in 1..n |-> [value |-> <<1>>, tries |-> MaxTries]]
    /\ reader = [capabilities |-> {}]
    /\ lock = NoLock
    /\ last = NoLast
    /\ thr = IdleThr
    /\ wire = IdleWire
    /\ call = NoCall
    /\ ret = NoRet
    /\ file = NoFile

\* verify_pin on the first PIN object that holds no content
VerifyNextPin ==
    \E p \in AuthObjs(p15card) :
        /\ ~HasContent(p15card.obj_list[p])
        /\ \A q \in 1..(p - 1) : HasContent(p15card.obj_list[q])
        /\ \E res \in {sc_pkcs15_verify_pin(p15card, reader, token, p, token[p].value,
                                            [out |-> "ok", padpin |-> <<1>>, padpin2 |-> <<1>>])} :
              Commit("verify_pin", p, token[p].value, res, p, "none")

NextClear ==
    \/ VerifyNextPin
    \/ PincacheClear

SpecClear == InitClear /\ [][NextClear]_vars

\* C5: after pincache_clear no PIN object of the card holds cached content,
\* however many PIN objects the object list has.
C5_ClearLeavesNoContent ==
    last.op = "pincache_clear" => CachedPins = {}

(***************************************************************************)
(* SpecConc: threads that share the card, each call taken one step at a    *)
(* time: sc_lock, every APDU handed to the reader, sc_unlock.  The card    *)
(* lock is a recursive mutex: sc_lock waits while another thread owns it.  *)
(* thr[t].at is the position of thread t in its call, thr[t].sent the      *)
(* number of APDUs the call has transmitted, wire.tx the thread whose      *)
(* APDU was the last on the wire.  Whether an APDU succeeds is up to the   *)
(* card; the calls are those that pass the checks made before sc_lock.     *)
(***************************************************************************)
SC_SEC_ENV_ALG_REF_PRESENT == "SC_SEC_ENV_ALG_REF_PRESENT"
SC_SEC_ENV_FILE_REF_PRESENT == "SC_SEC_ENV_FILE_REF_PRESENT"
SC_SEC_ENV_KEY_REF_PRESENT == "SC_SEC_ENV_KEY_REF_PRESENT"

CanLock(lk, t) == lk.owner \in {0, t}
sc_lock(lk, t) == [owner |-> t, count |-> lk.count + 1]
sc_unlock(lk, t) == IF lk.count > 1 THEN [lk EXCEPT !.count = @ - 1] ELSE NoLock

\* iso7816_set_security_env: the length of the MSE data field
sse_datalen(env) ==
    (IF SC_SEC_ENV_ALG_REF_PRESENT \in env.flags THEN 3 ELSE 0)
    + (IF SC_SEC_ENV_FILE_REF_PRESENT \in env.flags THEN 2 + env.file_ref_len ELSE 0)
    + (IF SC_SEC_ENV_KEY_REF_PRESENT \in env.flags THEN 2 + env.key_ref_len ELSE 0)

\* variant: the lock is never taken
sse_takes_lock_never(se_num) == FALSE

\* iso7816_set_security_env locks the card for a stored SE number
sse_takes_lock(se_num) == se_num > 0

SecEnvs == [flags : SUBSET {SC_SEC_ENV_ALG_REF_PRESENT, SC_SEC_ENV_KEY_REF_PRESENT},
            file_ref_len : {2}, key_ref_len : {1}]
SeNums == {1}
PinOps == {"verify_pin", "change_pin", "unblock_pin"}

InitConc ==
    /\ p15card = [opts |-> [use_pin_cache |-> FALSE, pin_cache_counter |-> 0],
                  obj_list |-> <<
                     Object(SC_PKCS15_TYPE_AUTH_PIN, <<>>, 0,
                            AuthInfo(<<1>>, 2, SC_PKCS15_PIN_AUTH_TYPE_PIN, 1, 2, 2, 1)),
                     Object(SC_PKCS15_TYPE_AUTH_PIN, <<>>, 0,
                            AuthInfo(<<2>>, 0, SC_PKCS15_PIN_AUTH_TYPE_PIN, 1, 2, 2, 2)) >>]
    /\ reader = [capabilities |-> {}]
    /\ token = [ref \in 1..2 |-> [value |-> <<1>>, tries |-> MaxTries]]
    /\ lock = NoLock
    /\ last = NoLast
    /\ thr = IdleThr
    /\ wire = IdleWire
    /\ call = NoCall
    /\ ret = NoRet
    /\ file = NoFile

Step(t, next, lk, tx) ==
    /\ thr' = [thr EXCEPT ![t] = next]
    /\ lock' = lk
    /\ wire' = IF tx THEN [tx |-> t] ELSE wire
    /\ UNCHANGED <<p15card, reader, token, last, call, ret, file>>

Moved(t, at) == [thr[t] EXCEPT !.at = at]
Transmitted(t, at) == [thr[t] EXCEPT !.at = at, !.sent = @ + 1]

\* verify_pin, change_pin, unblock_pin: entry, up to sc_lock
CallPin(t) ==
    /\ thr[t].at = "idle"
    /\ \E op \in PinOps, p \in AuthObjs(p15card) :
          Step(t, [Idle EXCEPT !.op = op, !.at = "lock", !.obj = p], lock, FALSE)

\* sc_lock, and the return when it fails
PinLock(t) ==
    /\ thr[t].at = "lock"
    /\ \/ /\ CanLock(lock, t)
          /\ Step(t, [thr[t] EXCEPT !.locked = 1,
                        !.at = IF p15card.obj_list[thr[t].obj].data.path_len > 0
                               THEN "select" ELSE "pin_cmd"],
                  sc_lock(lock, t), FALSE)
       \/ Step(t, Idle, lock, FALSE)

\* sc_select_file of the PIN path: on failure goto out
PinSelect(t) ==
    /\ thr[t].at = "select"
    /\ \E ok \in BOOLEAN :
          Step(t, Transmitted(t, IF ok THEN "pin_cmd" ELSE "out"), lock, TRUE)

\* sc_pin_cmd
PinCmd(t) ==
    /\ thr[t].at = "pin_cmd"
    /\ Step(t, Transmitted(t, "out"), lock, TRUE)

\* out: sc_unlock and return
PinOut(t) ==
    /\ thr[t].at = "out"
    /\ Step(t, Idle, sc_unlock(lock, t), FALSE)

\* iso7816_set_security_env: entry, the MSE APDU is built
CallSse(t) ==
    /\ thr[t].at = "idle"
    /\ \E env \in SecEnvs, se_num \in SeNums :
          Step(t, [Idle EXCEPT !.op = "set_security_env", !.se_num = se_num,
                               !.datalen = sse_datalen(env),
                               !.at = IF sse_takes_lock(se_num) THEN "sse_lock" ELSE "sse_mse"],
               lock, FALSE)

SseLock(t) ==
    /\ thr[t].at = "sse_lock"
    /\ \/ /\ CanLock(lock, t)
          /\ Step(t, [thr[t] EXCEPT !.locked = 1, !.at = "sse_mse"], sc_lock(lock, t), FALSE)
       \/ Step(t, Idle, lock, FALSE)

\* the MSE APDU, sent when it has a data field; then the test of se_num
SseMse(t) ==
    /\ thr[t].at = "sse_mse"
    /\ IF thr[t].datalen # 0
       THEN \E ok \in BOOLEAN :
               Step(t, IF ~ok THEN Transmitted(t, "sse_err")
                       ELSE IF thr[t].se_num <= 0 THEN Idle
                       ELSE Transmitted(t, "sse_set"),
                    lock, TRUE)
       ELSE Step(t, IF thr[t].se_num <= 0 THEN Idle ELSE Moved(t, "sse_set"),
                 lock, FALSE)

\* the SET SE APDU
SseSet(t) ==
    /\ thr[t].at = "sse_set"
    /\ Step(t, Transmitted(t, "sse_unlock"), lock, TRUE)

\* sc_unlock after the SET SE APDU, and return
SseUnlock(t) ==
    /\ thr[t].at = "sse_unlock"
    /\ Step(t, Idle, sc_unlock(lock, t), FALSE)

\* err: sc_unlock if locked, and return
SseErr(t) ==
    /\ thr[t].at = "sse_err"
    /\ Step(t, Idle, IF thr[t].locked # 0 THEN sc_unlock(lock, t) ELSE lock, FALSE)

NextConc ==
    \E t \in Threads :
        \/ CallPin(t)
        \/ PinLock(t)
        \/ PinSelect(t)
        \/ PinCmd(t)
        \/ PinOut(t)
        \/ CallSse(t)
        \/ SseLock(t)
        \/ SseMse(t)
        \/ SseSet(t)
        \/ SseUnlock(t)
        \/ SseErr(t)

SpecConc == InitConc /\ [][NextConc]_vars

\* the positions from which the next step hands an APDU to the reader
Transmits(t) ==
    \/ thr[t].at \in {"select", "pin_cmd", "sse_set"}
    \/ thr[t].at = "sse_mse" /\ thr[t].datalen # 0

\* C6: every APDU of a verify_pin, change_pin, unblock_pin or
\* set_security_env (stored SE number) call is transmitted while the caller
\* holds the card lock, and no APDU of another call comes between two APDUs
\* of one call.
C6_ApdusUnderLock ==
    \A t \in Threads :
        Transmits(t) => /\ lock.owner = t
                        /\ thr[t].sent > 0 => wire.tx = t

\* one call is between its two APDUs while another waits for the lock
C6_Witness ==
    \E t, u \in Threads :
        /\ t # u
        /\ thr[t].sent = 1 /\ Transmits(t)
        /\ thr[u].at \in {"lock", "sse_lock"}
        /\ wire.tx = t

(***************************************************************************)
(* SpecFile: one sc_file from sc_file_new on, under sc_file_add_acl_entry, *)
(* sc_file_clear_acl_entries, sc_file_set_*_attr and sc_file_dup.          *)
(* An ACL slot is the pointer file->acl[operation]: NULL, one of the three *)
(* sentinel values 1, 2, 3, or the head of a chain, kept here with the     *)
(* chain it heads.  Each allocation may fail.                              *)
(***************************************************************************)
SC_ERROR_OUT_OF_MEMORY == "SC_ERROR_OUT_OF_MEMORY"
SC_AC_NEVER == "SC_AC_NEVER"
SC_AC_NONE == "SC_AC_NONE"
SC_AC_UNKNOWN == "SC_AC_UNKNOWN"
SC_AC_TERM == "SC_AC_TERM"
SC_AC_KEY_REF_NONE == "SC_AC_KEY_REF_NONE"
SC_FILE_MAGIC == "SC_FILE_MAGIC"

AcOps == {0, 1}                      \* operations, each < SC_MAX_AC_OPS
\* (method, key_ref) of the calls: the sentinels, and three real entries
\* that differ in the method only and in the key reference only
AcArgs == ({SC_AC_NEVER, SC_AC_NONE, SC_AC_UNKNOWN, SC_AC_CHV} \X {1, 2})
          \cup {<<SC_AC_TERM, 1>>}
AttrValues == {NULL, <<7>>}

AclNull == [ptr |-> "NULL", chain |-> <<>>]
AclSentinel(n) == [ptr |-> n, chain |-> <<>>]
AclChain(c) == IF c = <<>> THEN AclNull ELSE [ptr |-> "entry", chain |-> c]
AclEntry(method, key_ref) == [method |-> method, key_ref |-> key_ref]

\* sc_file_clear_acl_entries
sc_file_clear_acl_entries(f, operation) ==
    [f EXCEPT !.acl[operation] = AclNull]

\* sc_file_new: calloc and the magic
sc_file_new ==
    [magic |-> SC_FILE_MAGIC, size |-> 0, id |-> 0,
     sec_attr |-> NULL, prop_attr |-> NULL, type_attr |-> NULL,
     acl |-> [o \in AcOps |-> AclNull]]

\* variant: a new entry becomes the head of the chain
sc_file_add_acl_entry_head(f, operation, method, key_ref, mem) ==
    IF method = SC_AC_NEVER
    THEN [file |-> [f EXCEPT !.acl[operation] = AclSentinel("1")], r |-> SC_SUCCESS]
    ELSE IF method = SC_AC_NONE
    THEN [file |-> [f EXCEPT !.acl[operation] = AclSentinel("2")], r |-> SC_SUCCESS]
    ELSE IF method = SC_AC_UNKNOWN
    THEN [file |-> [f EXCEPT !.acl[operation] = AclSentinel("3")], r |-> SC_SUCCESS]
    ELSE IF f.acl[operation].ptr = "1"
    THEN [file |-> f, r |-> SC_SUCCESS]
    ELSE LET c == f.acl[operation].chain
         IN  IF \E i \in DOMAIN c : c[i].method = method /\ c[i].key_ref = key_ref
             THEN [file |-> [f EXCEPT !.acl[operation] = AclChain(c)], r |-> SC_SUCCESS]
             ELSE IF ~mem
             THEN [file |-> [f EXCEPT !.acl[operation] = AclChain(c)],
                   r |-> SC_ERROR_OUT_OF_MEMORY]
             ELSE [file |-> [f EXCEPT !.acl[operation] =
                                AclChain(<<AclEntry(method, key_ref)>> \o c)],
                   r |-> SC_SUCCESS]

\* variant: an entry already in the chain is added again
sc_file_add_acl_entry_nodedup(f, operation, method, key_ref, mem) ==
    IF method = SC_AC_NEVER
    THEN [file |-> [f EXCEPT !.acl[operation] = AclSentinel("1")], r |-> SC_SUCCESS]
    ELSE IF method = SC_AC_NONE
    THEN [file |-> [f EXCEPT !.acl[operation] = AclSentinel("2")], r |-> SC_SUCCESS]
    ELSE IF method = SC_AC_UNKNOWN
    THEN [file |-> [f EXCEPT !.acl[operation] = AclSentinel("3")], r |-> SC_SUCCESS]
    ELSE IF f.acl[operation].ptr = "1"
    THEN [file |-> f, r |-> SC_SUCCESS]
    ELSE LET c == f.acl[operation].chain
         IN  IF ~mem
             THEN [file |-> [f EXCEPT !.acl[operation] = AclChain(c)],
                   r |-> SC_ERROR_OUT_OF_MEMORY]
             ELSE [file |-> [f EXCEPT !.acl[operation] =
                                AclChain(Append(c, AclEntry(method, key_ref)))],
                   r |-> SC_SUCCESS]

\* sc_file_add_acl_entry; mem tells whether malloc gives memory
sc_file_add_acl_entry(f, operation, method, key_ref, mem) ==
    IF method = SC_AC_NEVER
    THEN [file |-> [sc_file_clear_acl_entries(f, operation)
                       EXCEPT !.acl[operation] = AclSentinel("1")], r |-> SC_SUCCESS]
    ELSE IF method = SC_AC_NONE
    THEN [file |-> [sc_file_clear_acl_entries(f, operation)
                       EXCEPT !.acl[operation] = AclSentinel("2")], r |-> SC_SUCCESS]
    ELSE IF method = SC_AC_UNKNOWN
    THEN [file |-> [sc_file_clear_acl_entries(f, operation)
                       EXCEPT !.acl[operation] = AclSentinel("3")], r |-> SC_SUCCESS]
    ELSE IF f.acl[operation].ptr = "1"
    THEN [file |-> f, r |-> SC_SUCCESS]
    ELSE LET f1 == IF f.acl[operation].ptr \in {"2", "3"}
                   THEN [f EXCEPT !.acl[operation] = AclNull] ELSE f
             c == f1.acl[operation].chain
         IN  IF \E i \in DOMAIN c : c[i].method = method /\ c[i].key_ref = key_ref
             THEN [file |-> f1, r |-> SC_SUCCESS]
             ELSE IF ~mem
             THEN [file |-> f1, r |-> SC_ERROR_OUT_OF_MEMORY]
             ELSE [file |-> [f1 EXCEPT !.acl[operation] =
                                AclChain(Append(c, AclEntry(method, key_ref)))],
                   r |-> SC_SUCCESS]

\* sc_file_get_acl_entry: the chain behind the pointer it returns
sc_file_get_acl_entry(f, operation) ==
    LET p == f.acl[operation]
    IN  IF p.ptr = "1" THEN <<AclEntry(SC_AC_NEVER, SC_AC_KEY_REF_NONE)>>
        ELSE IF p.ptr = "2" THEN <<AclEntry(SC_AC_NONE, SC_AC_KEY_REF_NONE)>>
        ELSE IF p.ptr = "3" THEN <<AclEntry(SC_AC_UNKNOWN, SC_AC_KEY_REF_NONE)>>
        ELSE p.chain

\* sc_file_set_sec_attr, sc_file_set_prop_attr, sc_file_set_type_attr
sc_file_set_attr(f, which, attr, mem) ==
    IF attr = NULL THEN [file |-> [f EXCEPT ![which] = NULL], r |-> SC_SUCCESS]
    ELSE IF ~mem THEN [file |-> [f EXCEPT ![which] = NULL], r |-> SC_ERROR_OUT_OF_MEMORY]
    ELSE [file |-> [f EXCEPT ![which] = attr], r |-> SC_SUCCESS]

DupMem == {"none", "sc_file_new", "acl", "sec_attr", "prop_attr", "type_attr"}

RECURSIVE dup_acl(_, _, _, _)
\* sc_file_dup: the loop over the operations
dup_acl(newf, src, op, mem) ==
    IF op \notin AcOps THEN [file |-> newf, r |-> SC_SUCCESS]
    ELSE LET e == sc_file_get_acl_entry(src, op)
             n0 == [newf EXCEPT !.acl[op] = AclNull]
         IN  IF e # <<>>
             THEN LET a == sc_file_add_acl_entry(n0, op, e[1].method, e[1].key_ref,
                                                 mem # "acl")
                  IN  IF a.r # SC_SUCCESS THEN a ELSE dup_acl(a.file, src, op + 1, mem)
             ELSE dup_acl(n0, src, op + 1, mem)

\* sc_file_dup: *dest, NoFile standing for NULL; mem names the allocation
\* that fails, if any
sc_file_dup(src, mem) ==
    IF mem = "sc_file_new" THEN NoFile
    ELSE LET n1 == [sc_file_new EXCEPT !.size = src.size, !.id = src.id]
             a == dup_acl(n1, src, 0, mem)
             s1 == sc_file_set_attr(a.file, "sec_attr", src.sec_attr, mem # "sec_attr")
             s2 == sc_file_set_attr(s1.file, "prop_attr", src.prop_attr, mem # "prop_attr")
             s3 == sc_file_set_attr(s2.file, "type_attr", src.type_attr, mem # "type_attr")
         IN  IF a.r # SC_SUCCESS \/ s1.r # SC_SUCCESS \/ s2.r # SC_SUCCESS \/ s3.r # SC_SUCCESS THEN NoFile ELSE s3.file

\* what a call found in the slot: the pointer and the length of its chain
Before(a) == [ptr |-> a.ptr, len |-> Len(a.chain)]

NoFileCall == [fn |-> "sc_file_new", operation |-> 0, method |-> SC_AC_NONE,
               key_ref |-> 0, r |-> SC_SUCCESS, mem |-> "none", before |-> Before(AclNull)]

InitFile ==
    /\ IdleCard
    /\ call = NoCall
    /\ ret = NoRet
    /\ file = [f |-> [sc_file_new EXCEPT !.size = 16, !.id = \H5015],
               dest |-> NoFile, last |-> NoFileCall]

FileStep(f, l) ==
    /\ file' = [f |-> f, dest |-> NoFile, last |-> l]
    /\ UNCHANGED <<p15card, reader, token, lock, last, thr, wire, call, ret>>

AddAclEntry ==
    \E operation \in AcOps, arg \in AcArgs, mem \in BOOLEAN :
        LET method == arg[1]
            key_ref == arg[2]
            a == sc_file_add_acl_entry(file.f, operation, method, key_ref, mem)
        IN  FileStep(a.file,
                     [NoFileCall EXCEPT !.fn = "sc_file_add_acl_entry",
                        !.operation = operation, !.method = method, !.key_ref = key_ref,
                        !.r = a.r, !.before = Before(file.f.acl[operation])])

ClearAclEntries ==
    \E operation \in AcOps :
        FileStep(sc_file_clear_acl_entries(file.f, operation),
                 [NoFileCall EXCEPT !.fn = "sc_file_clear_acl_entries",
                    !.operation = operation, !.before = Before(file.f.acl[operation])])

SetAttr ==
    \E which \in {"sec_attr", "prop_attr", "type_attr"}, attr \in AttrValues, mem \in BOOLEAN :
        LET a == sc_file_set_attr(file.f, which, attr, mem)
        IN  FileStep(a.file, [NoFileCall EXCEPT !.fn = "sc_file_set_attr", !.r = a.r])

FileDup ==
    \E mem \in DupMem :
        /\ file' = [f |-> file.f, dest |-> sc_file_dup(file.f, mem),
                    last |-> [NoFileCall EXCEPT !.fn = "sc_file_dup", !.mem = mem]]
        /\ UNCHANGED <<p15card, reader, token, lock, last, thr, wire, call, ret>>

NextFile ==
    \/ AddAclEntry
    \/ ClearAclEntries
    \/ SetAttr
    \/ FileDup

SpecFile == InitFile /\ [][NextFile]_vars

RealMethod(method) == method \notin {SC_AC_NEVER, SC_AC_NONE, SC_AC_UNKNOWN}

\* C11: an add of a real method on a slot that is NEVER leaves the retrieved
\* chain NEVER; on a slot that is NONE or UNKNOWN it leaves the retrieved
\* chain with exactly the added entry.
C11_SentinelLaws ==
    LET l == file.last
        got == sc_file_get_acl_entry(file.f, l.operation)
    IN  (l.fn = "sc_file_add_acl_entry" /\ RealMethod(l.method)) =>
           /\ l.before.ptr = "1" =>
                 got = <<AclEntry(SC_AC_NEVER, SC_AC_KEY_REF_NONE)>>
           /\ l.before.ptr \in {"2", "3"} =>
                 got = <<AclEntry(l.method, l.key_ref)>>

C13_DupIsDeepCopy ==
    (file.last.fn = "sc_file_dup" /\ file.last.mem = "none") =>
        /\ file.dest # NoFile
        /\ file.dest.magic = SC_FILE_MAGIC
        /\ file.dest.size = file.f.size /\ file.dest.id = file.f.id
        /\ file.dest.sec_attr = file.f.sec_attr
        /\ file.dest.prop_attr = file.f.prop_attr
        /\ file.dest.type_attr = file.f.type_attr
        /\ \A o \in AcOps :
              sc_file_get_acl_entry(file.dest, o) = sc_file_get_acl_entry(file.f, o)

\* C26: a call of sc_file_add_acl_entry with a real method leaves the chain
\* of its slot without two entries of the same (method, key_ref); when the
\* pair is already in the chain the chain is unchanged, and a new pair is
\* appended at the tail, so that the entries stay in the order in which
\* they were first added.
C26_ChainKeepsInsertionOrder ==
    [][ (file'.last.fn = "sc_file_add_acl_entry" /\ RealMethod(file'.last.method)) =>
            LET o == file'.last.operation
                e == AclEntry(file'.last.method, file'.last.key_ref)
                c == file.f.acl[o].chain
                c2 == file'.f.acl[o].chain
                present == \E i \in DOMAIN c : c[i] = e
            IN  /\ \A i, j \in DOMAIN c2 :
                      (c2[i].method = c2[j].method /\ c2[i].key_ref = c2[j].key_ref) => i = j
                /\ present => c2 = c
                /\ (~present /\ file'.last.r = SC_SUCCESS /\ file.f.acl[o].ptr # "1")
                      => c2 = Append(c, e)
                /\ Len(c2) >= Len(c) /\ SubSeq(c2, 1, Len(c)) = c
                /\ \A o2 \in AcOps \ {o} : file'.f.acl[o2] = file.f.acl[o2] ]_vars

\* the pair at the head of a chain of two was added again: the chain still
\* has its two entries, the re-added pair first
C26_Witness ==
    /\ file.last.fn = "sc_file_add_acl_entry"
    /\ RealMethod(file.last.method)
    /\ file.last.r = SC_SUCCESS
    /\ file.last.before.len = 2
    /\ Len(file.f.acl[file.last.operation].chain) = 2
    /\ file.f.acl[file.last.operation].chain[1] = AclEntry(file.last.method, file.last.key_ref)
    /\ file.f.acl[file.last.operation].chain[2] # AclEntry(file.last.method, file.last.key_ref)

(***************************************************************************)
(* SpecApdu: the commands of iso7816.c that build their APDU from the      *)
(* caller's arguments: SELECT FILE, PSO sign and decipher, GET CHALLENGE.  *)
(* One call per behaviour; call holds the arguments and what the card will *)
(* answer, ret the result and the APDUs handed to sc_transmit_apdu.        *)
(***************************************************************************)
SC_PATH_TYPE_FILE_ID == "SC_PATH_TYPE_FILE_ID"
SC_PATH_TYPE_DF_NAME == "SC_PATH_TYPE_DF_NAME"
SC_PATH_TYPE_PATH == "SC_PATH_TYPE_PATH"
SC_PATH_TYPE_PARENT == "SC_PATH_TYPE_PARENT"
SC_APDU_CASE_2_SHORT == "SC_APDU_CASE_2_SHORT"
SC_APDU_CASE_3_SHORT == "SC_APDU_CASE_3_SHORT"
SC_APDU_CASE_4_SHORT == "SC_APDU_CASE_4_SHORT"

Path(type, value) == [type |-> type, value |-> value, len |-> Len(value)]
Apdu(cse, ins, p1, p2, data, le) ==
    [cse |-> cse, ins |-> ins, p1 |-> p1, p2 |-> p2, lc |-> Len(data),
     data |-> data, datalen |-> Len(data), le |-> le]
SeqsUpTo(S, n) == UNION {[1..k -> S] : k \in 0..n}

\* variant: the leading 3F00 is stripped from the bare MF path too
select_file_args_stripmf(in_path) ==
    IF in_path.type = SC_PATH_TYPE_FILE_ID
    THEN [r |-> IF in_path.len # 2 THEN SC_ERROR_INVALID_ARGUMENTS ELSE SC_SUCCESS,
          p1 |-> 0, path |-> in_path.value]
    ELSE IF in_path.type = SC_PATH_TYPE_DF_NAME
    THEN [r |-> SC_SUCCESS, p1 |-> 4, path |-> in_path.value]
    ELSE IF in_path.type = SC_PATH_TYPE_PATH
    THEN IF in_path.len >= 2 /\ SubSeq(in_path.value, 1, 2) = <<\H3F, \H00>>
         THEN [r |-> SC_SUCCESS, p1 |-> 8,
               path |-> SubSeq(in_path.value, 3, in_path.len)]
         ELSE [r |-> SC_SUCCESS, p1 |-> 8, path |-> in_path.value]
    ELSE [r |-> SC_ERROR_INVALID_ARGUMENTS, p1 |-> 0, path |-> in_path.value]

\* iso7816_select_file: the switch on the path type
select_file_args(in_path) ==
    IF in_path.type = SC_PATH_TYPE_FILE_ID
    THEN [r |-> IF in_path.len # 2 THEN SC_ERROR_INVALID_ARGUMENTS ELSE SC_SUCCESS,
          p1 |-> 0, path |-> in_path.value]
    ELSE IF in_path.type = SC_PATH_TYPE_DF_NAME
    THEN [r |-> SC_SUCCESS, p1 |-> 4, path |-> in_path.value]
    ELSE IF in_path.type = SC_PATH_TYPE_PATH
    THEN IF in_path.len >= 2 /\ SubSeq(in_path.value, 1, 2) = <<\H3F, \H00>>
         THEN IF in_path.len = 2
              THEN [r |-> SC_SUCCESS, p1 |-> 0, path |-> in_path.value]
              ELSE [r |-> SC_SUCCESS, p1 |-> 8,
                    path |-> SubSeq(in_path.value, 3, in_path.len)]
         ELSE [r |-> SC_SUCCESS, p1 |-> 8, path |-> in_path.value]
    ELSE [r |-> SC_ERROR_INVALID_ARGUMENTS, p1 |-> 0, path |-> in_path.value]

\* iso7816_select_file; file_out tells whether the caller wants the file,
\* resp is the card's answer, tag the first byte of its response data and
\* mem whether sc_file_new gets memory
iso7816_select_file(in_path, file_out, resp, tag, mem) ==
    LET a == select_file_args(in_path)
        apdu == IF file_out
                THEN Apdu(SC_APDU_CASE_4_SHORT, \HA4, a.p1, 0, a.path, 256)
                ELSE Apdu(SC_APDU_CASE_3_SHORT, \HA4, a.p1, 0, a.path, 0)
        sw == iso7816_check_sw(resp.sw1, resp.sw2)
    IN  IF a.r # SC_SUCCESS THEN [r |-> a.r, sent |-> <<>>]
        ELSE IF resp.r # SC_SUCCESS THEN [r |-> resp.r, sent |-> <<apdu>>]
        ELSE IF ~file_out
        THEN [r |-> IF resp.sw1 = \H61 THEN SC_SUCCESS ELSE sw, sent |-> <<apdu>>]
        ELSE IF sw # SC_SUCCESS THEN [r |-> sw, sent |-> <<apdu>>]
        ELSE IF tag = \H6F
        THEN [r |-> IF mem THEN SC_SUCCESS ELSE SC_ERROR_OUT_OF_MEMORY, sent |-> <<apdu>>]
        ELSE [r |-> SC_ERROR_UNKNOWN_REPLY, sent |-> <<apdu>>]

\* a run of n bytes of the caller's data; only the length matters here
Bytes(n) == [len |-> n]

\* the value returned on 9000: the number of bytes copied to out
Copied(resp, outlen) == IF resp.resplen > outlen THEN outlen ELSE resp.resplen

\* iso7816_compute_signature; the len field is the returned length
iso7816_compute_signature(datalen, outlen, resp) ==
    LET apdu == [cse |-> SC_APDU_CASE_3_SHORT, ins |-> \H2A, p1 |-> \H9E, p2 |-> \H9A,
                 lc |-> datalen, data |-> Bytes(datalen), datalen |-> datalen, le |-> 0]
    IN  IF datalen > 255 THEN [r |-> SC_ERROR_INVALID_ARGUMENTS, len |-> 0, sent |-> <<>>]
        ELSE IF resp.r # SC_SUCCESS THEN [r |-> resp.r, len |-> 0, sent |-> <<apdu>>]
        ELSE IF resp.sw1 = \H90 /\ resp.sw2 = \H00
        THEN [r |-> SC_SUCCESS, len |-> Copied(resp, outlen), sent |-> <<apdu>>]
        ELSE [r |-> iso7816_check_sw(resp.sw1, resp.sw2), len |-> 0, sent |-> <<apdu>>]

\* iso7816_decipher; the data field is the padding indicator and the cryptogram
iso7816_decipher(crgram_len, outlen, resp) ==
    LET apdu == [cse |-> SC_APDU_CASE_3_SHORT, ins |-> \H2A, p1 |-> \H80, p2 |-> \H86,
                 lc |-> crgram_len + 1, data |-> Bytes(crgram_len + 1),
                 datalen |-> crgram_len + 1, le |-> 0]
    IN  IF crgram_len > 255 THEN [r |-> SC_ERROR_INVALID_ARGUMENTS, len |-> 0, sent |-> <<>>]
        ELSE IF resp.r # SC_SUCCESS THEN [r |-> resp.r, len |-> 0, sent |-> <<apdu>>]
        ELSE IF resp.sw1 = \H90 /\ resp.sw2 = \H00
        THEN [r |-> SC_SUCCESS, len |-> Copied(resp, outlen), sent |-> <<apdu>>]
        ELSE [r |-> iso7816_check_sw(resp.sw1, resp.sw2), len |-> 0, sent |-> <<apdu>>]

RECURSIVE get_challenge_loop(_, _, _, _)
\* iso7816_get_challenge: the while loop; chunks are the lengths copied to
\* rnd so far, resps the card's answers to the exchanges still to come
get_challenge_loop(len, chunks, sent, resps) ==
    IF ~(len > 0) THEN [r |-> SC_SUCCESS, chunks |-> chunks, sent |-> sent]
    ELSE LET n == IF len > 8 THEN 8 ELSE len
             apdu == [cse |-> SC_APDU_CASE_2_SHORT, ins |-> \H84, p1 |-> 0, p2 |-> 0,
                      lc |-> 0, data |-> Bytes(0), datalen |-> 0, le |-> 8]
             resp == Head(resps)
         IN  IF resp.r # SC_SUCCESS
             THEN [r |-> resp.r, chunks |-> chunks, sent |-> sent + 1]
             ELSE IF resp.resplen # 8
             THEN [r |-> iso7816_check_sw(resp.sw1, resp.sw2), chunks |-> chunks,
                   sent |-> sent + 1]
             ELSE get_challenge_loop(len - n, Append(chunks, n), sent + 1, Tail(resps))

\* iso7816_get_challenge
iso7816_get_challenge(len, resps) == get_challenge_loop(len, <<>>, 0, resps)

PathBytes == {\H3F, \H00, \H50, \H15}
PathValues == SeqsUpTo(PathBytes, 3) \cup {<<\H3F, \H00, \H50, \H15>>}
PathTypes == {SC_PATH_TYPE_FILE_ID, SC_PATH_TYPE_DF_NAME, SC_PATH_TYPE_PATH,
              SC_PATH_TYPE_PARENT}

\* what SELECT FILE meets: <<file_out, resp, tag, mem>>
SelectEnvs ==
    ({FALSE} \X {Resp(SC_ERROR_TRANSMIT_FAILED, 0, 0), Resp(SC_SUCCESS, \H90, \H00),
                 Resp(SC_SUCCESS, \H61, \H10), Resp(SC_SUCCESS, \H6A, \H82)}
             \X {\H6F} \X {TRUE})
    \cup ({TRUE} \X {Resp(SC_SUCCESS, \H6A, \H82)} \X {\H6F} \X {TRUE})
    \cup ({TRUE} \X {Resp(SC_SUCCESS, \H90, \H00)} \X {\H6F, \H00} \X BOOLEAN)

\* the card's answer with the length of its response data
XResp(r, resplen, sw1, sw2) == [r |-> r, resplen |-> resplen, sw1 |-> sw1, sw2 |-> sw2]

PsoLens == {0, 1, 128, 254, 255, 256, 300}
PsoOutLens == {0, 128, 256}
PsoResps == {XResp(SC_ERROR_TRANSMIT_FAILED, 0, 0, 0), XResp(SC_SUCCESS, 0, \H69, \H82),
             XResp(SC_SUCCESS, 0, \H90, \H00), XResp(SC_SUCCESS, 128, \H90, \H00),
             XResp(SC_SUCCESS, 256, \H90, \H00)}

ChallengeResps == {XResp(SC_ERROR_TRANSMIT_FAILED, 0, 0, 0), XResp(SC_SUCCESS, 0, \H6A, \H81),
                   XResp(SC_SUCCESS, 4, \H90, \H00), XResp(SC_SUCCESS, 8, \H90, \H00)}
\* the exchanges a call of MaxChallenge bytes can need
ChallengeExchanges == (MaxChallenge + 7) \div 8

InitApdu ==
    /\ IdleCard
    /\ ret = NoRet
    /\ file = NoFile
    /\ \/ \E type \in PathTypes, value \in PathValues, e \in SelectEnvs :
             call = [fn |-> "iso7816_select_file", in_path |-> Path(type, value),
                     file_out |-> e[1], resp |-> e[2], tag |-> e[3], mem |-> e[4]]
       \/ \E fn \in {"iso7816_compute_signature", "iso7816_decipher"},
             datalen \in PsoLens, outlen \in PsoOutLens, resp \in PsoResps :
             call = [fn |-> fn, datalen |-> datalen, outlen |-> outlen, resp |-> resp]
       \/ \E len \in 0..MaxChallenge, resps \in [1..ChallengeExchanges -> ChallengeResps] :
             call = [fn |-> "iso7816_get_challenge", len |-> len, resps |-> resps]

Returned(res) ==
    /\ ret = NoRet
    /\ ret' = [fn |-> call.fn, res |-> res]
    /\ UNCHANGED <<p15card, reader, token, lock, last, thr, wire, call, file>>

SelectFile ==
    /\ call.fn = "iso7816_select_file"
    /\ Returned(iso7816_select_file(call.in_path, call.file_out, call.resp, call.tag,
                                    call.mem))

ComputeSignature ==
    /\ call.fn = "iso7816_compute_signature"
    /\ Returned(iso7816_compute_signature(call.datalen, call.outlen, call.resp))

Decipher ==
    /\ call.fn = "iso7816_decipher"
    /\ Returned(iso7816_decipher(call.datalen, call.outlen, call.resp))

GetChallenge ==
    /\ call.fn = "iso7816_get_challenge"
    /\ Returned(iso7816_get_challenge(call.len, call.resps))

NextApdu ==
    \/ SelectFile
    \/ ComputeSignature
    \/ Decipher
    \/ GetChallenge

SpecApdu == InitApdu /\ [][NextApdu]_vars

StartsWithMF(value) == Len(value) >= 2 /\ value[1] = \H3F /\ value[2] = \H00

\* C14: SELECT FILE takes P1 and the data field from the path: FILE_ID of
\* length 2 gives P1 = 0 (any other length INVALID_ARGUMENTS, nothing
\* sent), DF_NAME gives P1 = 4, the PATH 3F00 gives P1 = 0 with data 3F00,
\* any other PATH gives P1 = 8 with a leading 3F00 stripped.
C14_SelectP1AndData ==
    ret.fn = "iso7816_select_file" =>
        LET p == call.in_path
            sent == ret.res.sent
            Sends(p1, data) == /\ Len(sent) = 1
                               /\ sent[1].ins = \HA4 /\ sent[1].p1 = p1
                               /\ sent[1].lc = Len(data) /\ sent[1].data = data
        IN  /\ p.type = SC_PATH_TYPE_FILE_ID =>
                  IF p.len = 2 THEN Sends(0, p.value)
                  ELSE ret.res.r = SC_ERROR_INVALID_ARGUMENTS /\ sent = <<>>
            /\ p.type = SC_PATH_TYPE_DF_NAME => Sends(4, p.value)
            /\ p.type = SC_PATH_TYPE_PATH =>
                  IF p.value = <<\H3F, \H00>> THEN Sends(0, <<\H3F, \H00>>)
                  ELSE IF StartsWithMF(p.value)
                  THEN Sends(8, SubSeq(p.value, 3, Len(p.value)))
                  ELSE Sends(8, p.value)

\* 3F00/5015 has been selected with P1 = 8, Lc = 2 and data 50 15
C14_Witness ==
    /\ ret.fn = "iso7816_select_file"
    /\ call.in_path = Path(SC_PATH_TYPE_PATH, <<\H3F, \H00, \H50, \H15>>)
    /\ Len(ret.res.sent) = 1
    /\ ret.res.sent[1].p1 = 8 /\ ret.res.sent[1].lc = 2
    /\ ret.res.sent[1].data = <<\H50, \H15>>

\* C15: every PSO sign and PSO decipher APDU handed to the reader has
\* Lc <= 255, the padding indicator included, and an input whose data field
\* would be longer is rejected with INVALID_ARGUMENTS, nothing being sent.
C15_PsoLcAtMost255 ==
    ret.fn \in {"iso7816_compute_signature", "iso7816_decipher"} =>
        LET field == IF ret.fn = "iso7816_decipher" THEN call.datalen + 1 ELSE call.datalen
        IN  /\ \A i \in DOMAIN ret.res.sent : ret.res.sent[i].lc <= 255
            /\ field > 255 => (ret.res.r = SC_ERROR_INVALID_ARGUMENTS /\ ret.res.sent = <<>>)

RECURSIVE SumSeq(_)
SumSeq(q) == IF q = <<>> THEN 0 ELSE Head(q) + SumSeq(Tail(q))

\* C16: get_challenge(len) returns success only when exactly len bytes were
\* written, in chunks of 8 with the last one cut to what remained, one
\* chunk per GET CHALLENGE exchange.
C16_ChallengeFillsBuffer ==
    (ret.fn = "iso7816_get_challenge" /\ ret.res.r = SC_SUCCESS) =>
        LET c == ret.res.chunks
        IN  /\ SumSeq(c) = call.len
            /\ Len(c) = ret.res.sent
            /\ Len(c) = (call.len + 7) \div 8
            /\ \A i \in DOMAIN c : c[i] = IF i < Len(c) THEN 8 ELSE call.len - 8 * (i - 1)

(***************************************************************************)
(* SpecUtil: the helpers of sc.c that compute a value from their           *)
(* arguments: sc_concatenate_path and sc_append_path, sc_format_oid,       *)
(* ulong2bebytes and bebytes2ulong, _sc_parse_atr.  One call per           *)
(* behaviour, arguments in call, result in ret.                            *)
(***************************************************************************)
SC_MAX_PATH_SIZE == 16
SC_ERROR_INTERNAL == "SC_ERROR_INTERNAL"

\* struct sc_path with its index, count and aid
FullPath(type, value, index, count, aid) ==
    [type |-> type, value |-> value, len |-> Len(value), index |-> index,
     count |-> count, aid |-> aid]

\* variant: the total length is not checked
sc_concatenate_path_nolimit(p1, p2) ==
    IF p1.type = SC_PATH_TYPE_DF_NAME \/ p2.type = SC_PATH_TYPE_DF_NAME
    THEN [r |-> SC_ERROR_NOT_SUPPORTED, d |-> p1]
    ELSE [r |-> SC_SUCCESS,
          d |-> FullPath(SC_PATH_TYPE_PATH, p1.value \o p2.value, p2.index, p2.count, <<>>)]

\* sc_concatenate_path(d, p1, p2), with d = p1 as sc_append_path calls it:
\* on failure d is as it was
sc_concatenate_path(p1, p2) ==
    IF p1.type = SC_PATH_TYPE_DF_NAME \/ p2.type = SC_PATH_TYPE_DF_NAME
    THEN [r |-> SC_ERROR_NOT_SUPPORTED, d |-> p1]
    ELSE IF p1.len + p2.len > SC_MAX_PATH_SIZE
    THEN [r |-> SC_ERROR_INVALID_ARGUMENTS, d |-> p1]
    ELSE [r |-> SC_SUCCESS,
          d |-> FullPath(SC_PATH_TYPE_PATH, p1.value \o p2.value, p2.index, p2.count, <<>>)]

\* sc_append_path
sc_append_path(dest, src) == sc_concatenate_path(dest, src)

\* the bytes b+1 .. b+n
Run(b, n) == [i \in 1..n |-> b + i]

ConcatTypes == {SC_PATH_TYPE_FILE_ID, SC_PATH_TYPE_DF_NAME, SC_PATH_TYPE_PATH}
ConcatLens == {0, 1, 2, 8, SC_MAX_PATH_SIZE - 1, SC_MAX_PATH_SIZE}

UtilCalls_concat ==
    {[fn |-> fn,
      p1 |-> FullPath(t1, Run(0, n1), 0, -1, <<>>),
      p2 |-> FullPath(t2, Run(100, n2), ic[1], ic[2], <<>>)] :
        fn \in {"sc_concatenate_path", "sc_append_path"},
        t1 \in ConcatTypes, t2 \in ConcatTypes,
        n1 \in ConcatLens, n2 \in ConcatLens,
        ic \in {<<0, -1>>, <<2, 4>>}}

SC_MAX_OBJECT_ID_OCTETS == 16

\* a C string is the sequence of its characters, the final 0 left out
Digits == <<"0", "1", "2", "3", "4", "5", "6", "7", "8", "9">>
isdigit(c) == \E i \in DOMAIN Digits : Digits[i] = c
DigitVal(c) == (CHOOSE i \in DOMAIN Digits : Digits[i] = c) - 1
CharAt(in, q) == IF q \in DOMAIN in THEN in[q] ELSE "NUL"

RECURSIVE strtol_from(_, _, _)
\* strtol(p, &q, 10) on a string without blanks and signs: the digits from
\* p on, and q, the first character that is not one
strtol_from(in, q, val) ==
    IF isdigit(CharAt(in, q)) THEN strtol_from(in, q + 1, val * 10 + DigitVal(in[q]))
    ELSE [val |-> val, q |-> q]

RECURSIVE format_oid_loop(_, _, _, _)
\* sc_format_oid: the for loop; ii counts from 0 as in the code
format_oid_loop(in, ii, p, value) ==
    IF ~(ii < SC_MAX_OBJECT_ID_OCTETS) THEN [r |-> SC_SUCCESS, ii |-> ii, value |-> value]
    ELSE LET n == strtol_from(in, p, 0)
             v == [value EXCEPT ![ii + 1] = n.val]
         IN  IF CharAt(in, n.q) = "NUL" THEN [r |-> SC_SUCCESS, ii |-> ii, value |-> v]
             ELSE IF ~(CharAt(in, n.q) = "." /\ isdigit(CharAt(in, n.q + 1)))
             THEN [r |-> SC_ERROR_INVALID_ARGUMENTS, ii |-> ii, value |-> v]
             ELSE format_oid_loop(in, ii + 1, n.q + 1, v)

\* sc_format_oid
sc_format_oid(in) ==
    LET l == format_oid_loop(in, 0, 1, [i \in 1..SC_MAX_OBJECT_ID_OCTETS |-> -1])
    IN  IF l.r # SC_SUCCESS THEN [r |-> l.r, value |-> l.value]
        ELSE IF l.ii = 1 THEN [r |-> SC_ERROR_INVALID_ARGUMENTS, value |-> l.value]
        ELSE [r |-> SC_SUCCESS, value |-> l.value]

RECURSIVE Dotted(_)
\* the dotted-decimal string of the components cs, each a string of digits
Dotted(cs) ==
    IF Len(cs) = 0 THEN <<>>
    ELSE IF Len(cs) = 1 THEN cs[1]
    ELSE cs[1] \o <<".">> \o Dotted(Tail(cs))

OidChars == {"1", "0", ".", "x"}
OidComponents == {<<"1">>, <<"2">>, <<"8", "4", "0">>, <<"1", "1", "3", "5", "4", "9">>}
RsaOid == <<<<"1">>, <<"2">>, <<"8", "4", "0">>, <<"1", "1", "3", "5", "4", "9">>,
            <<"1">>, <<"1">>, <<"1">>>>

\* the strings given to sc_format_oid: every string of up to MaxOidLen
\* characters, every OID of up to three components, OIDs of up to
\* SC_MAX_OBJECT_ID_OCTETS + 1 components, and 1.2.840.113549.1.1.1
UtilCalls_oid ==
    {[fn |-> "sc_format_oid", in |-> in] :
        in \in SeqsUpTo(OidChars, MaxOidLen)
               \cup {Dotted(cs) : cs \in SeqsUpTo(OidComponents, 3)}
               \cup {Dotted([i \in 1..n |-> <<"2">>]) : n \in 1..(SC_MAX_OBJECT_ID_OCTETS + 1)}
               \cup {Dotted(RsaOid)}}

\* an unsigned long is its four 16-bit limbs, the most significant first:
\* a long of 32 bits has the first two at 0
ULong(hi, lo) == <<0, 0, hi, lo>>

\* ulong2bebytes: the buffer written, NULL for a NULL buffer
ulong2bebytes(buf, x) ==
    IF buf = NULL THEN NULL
    ELSE <<(x[3] \div 256) % 256,      \* (x >> 24) & 0xff
           x[3] % 256,                 \* (x >> 16) & 0xff
           (x[4] \div 256) % 256,      \* (x >> 8) & 0xff
           x[4] % 256>>                \* x & 0xff

\* (unsigned long) v for an int v, where long has long_bits bits
int2ulong(v, long_bits) ==
    LET ext == IF v < 0 /\ long_bits = 64 THEN 65535 ELSE 0
    IN  <<ext, ext, (v \div 65536) % 65536, v % 65536>>

\* bebytes2ulong: buf[0] << 24 is computed in int. For buf[0] >= 0x80 the
\* shift overflows int, and the build yields the two's complement value
bebytes2ulong(buf, long_bits) ==
    IF buf = NULL THEN ULong(0, 0)
    ELSE LET b0 == IF buf[1] >= 128 THEN buf[1] - 256 ELSE buf[1]
         IN  int2ulong(b0 * 16777216 + buf[2] * 65536 + buf[3] * 256 + buf[4], long_bits)

UtilCalls_bebytes ==
    {[fn |-> "bebytes2ulong", x |-> ULong(hi, lo), long_bits |-> w] :
        hi \in {0, 1, \H1234, \H7FFF, \H8000, \HFFFF},
        lo \in {0, 1, \H5678, \HFFFF},
        w \in {32, 64}}

Fi_table == <<372, 372, 558, 744, 1116, 1488, 1860, -1,
              -1, 512, 768, 1024, 1536, 2048, -1, -1>>
f_table == <<40, 50, 60, 80, 120, 160, 200, -1,
             -1, 50, 75, 100, 150, 200, -1, -1>>
Di_table == <<-1, 1, 2, 4, 8, 16, 32, -1,
              12, 20, -1, -1, -1, -1, -1, -1>>

Bit(x, i) == (x \div (2 ^ i)) % 2 = 1

RECURSIVE atr_round(_, _, _, _)
\* the for loop of _sc_parse_atr from index i on: st.p is the offset of p
\* in the ATR, st.atr_len the bytes left, st.tx the array tx
atr_round(atr, st, x, i) ==
    IF ~(i < 4 /\ st.atr_len > 0) THEN st
    ELSE IF Bit(x, i)
    THEN atr_round(atr, [p |-> st.p + 1, atr_len |-> st.atr_len - 1,
                         tx |-> [st.tx EXCEPT ![i + 1] = atr[st.p + 1]]], x, i + 1)
    ELSE atr_round(atr, [st EXCEPT !.tx[i + 1] = -1], x, i + 1)

\* variant: the interface bytes a TD byte announces are not consumed
atr_more_stop(atr, st) == st

RECURSIVE atr_more(_, _)
\* the while loop of _sc_parse_atr
atr_more(atr, st) ==
    IF st.tx[4] > 0 /\ (st.tx[4] \div 16) % 16 # 0 /\ st.atr_len > 0
    THEN atr_more(atr, atr_round(atr, st, st.tx[4] \div 16, 0))
    ELSE st

\* _sc_parse_atr on a reader whose atr_info was info: the code returned
\* and the atr_info left. hist_bytes is NULL or <<offset into the ATR>>
_sc_parse_atr(atr, info) ==
    LET info0 == [info EXCEPT !.hist_bytes_len = 0, !.hist_bytes = NULL]
    IN  IF Len(atr) = 0 THEN [r |-> SC_ERROR_INTERNAL, atr_info |-> info0]
        ELSE IF atr[1] # \H3B /\ atr[1] # \H3F
        THEN [r |-> SC_ERROR_INTERNAL, atr_info |-> info0]
        ELSE
        \* p[1] of an ATR of one byte is outside the ATR: the round below
        \* does not run then, and nothing read from it is used
        LET t0 == IF Len(atr) >= 2 THEN atr[2] ELSE 0
            n_hist == t0 % 16
            st1 == atr_round(atr, [p |-> 2, atr_len |-> Len(atr) - 2,
                                   tx |-> <<-1, -1, -1, -1>>], t0 \div 16, 0)
            info1 == IF st1.tx[1] >= 0
                     THEN [info0 EXCEPT !.FI = st1.tx[1] \div 16,
                                        !.DI = st1.tx[1] % 16,
                                        !.Fi = Fi_table[(st1.tx[1] \div 16) + 1],
                                        !.f = f_table[(st1.tx[1] \div 16) + 1],
                                        !.Di = Di_table[(st1.tx[1] % 16) + 1]]
                     ELSE [info0 EXCEPT !.Fi = -1, !.f = -1, !.Di = -1]
            info2 == [info1 EXCEPT !.N = IF st1.tx[3] >= 0 THEN st1.tx[4] ELSE -1]
            st2 == atr_more(atr, st1)
        IN  IF st2.atr_len <= 0 THEN [r |-> SC_SUCCESS, atr_info |-> info2]
            ELSE [r |-> SC_SUCCESS,
                  atr_info |-> [info2 EXCEPT
                      !.hist_bytes_len = IF n_hist > st2.atr_len THEN st2.atr_len
                                         ELSE n_hist,
                      !.hist_bytes = <<st2.p>>]]

\* the atr_info of an earlier card, with history bytes
OldAtrInfo ==
    [hist_bytes_len |-> 2, hist_bytes |-> <<3>>, FI |-> 1, DI |-> 1,
     Fi |-> 372, f |-> 50, Di |-> 1, N |-> 0]

JcopAtr == <<\H3B, \HF7, \H11, \H00, \H00, \H81, \H31, \HFE, \H45,
             \H4A, \H43, \H4F, \H50, \H32, \H31, \H56, \H22>>

AtrT0 == {\H00, \H02, \H12, \H80, \H92, \HF1}
AtrTail == {\H00, \H11, \H80, \H90, \H31}

\* the ATRs parsed: the ATR of a JCOP card and its prefixes, and a sync
\* byte, a T0 and up to MaxAtrTail further bytes
UtilCalls_atr ==
    {[fn |-> "_sc_parse_atr", atr |-> atr] :
        atr \in {SubSeq(JcopAtr, 1, n) : n \in 0..Len(JcopAtr)}
                \cup {<<\H3B, \H80, \H80, \H11, \H22>>}
                \cup {<<ts, t0>> \o tail :
                        ts \in {\H3B, \H3F, \H00}, t0 \in AtrT0,
                        tail \in SeqsUpTo(AtrTail, MaxAtrTail)}}

InitUtil ==
    /\ IdleCard
    /\ ret = NoRet
    /\ file = NoFile
    /\ call \in UtilCalls_concat \cup UtilCalls_oid \cup UtilCalls_bebytes
                \cup UtilCalls_atr

ConcatenatePath ==
    /\ call.fn = "sc_concatenate_path"
    /\ Returned(sc_concatenate_path(call.p1, call.p2))

AppendPath ==
    /\ call.fn = "sc_append_path"
    /\ Returned(sc_append_path(call.p1, call.p2))

FormatOid ==
    /\ call.fn = "sc_format_oid"
    /\ Returned(sc_format_oid(call.in))

\* bebytes2ulong(ulong2bebytes(buf, x)) with a buffer of four bytes
BebytesRoundTrip ==
    /\ call.fn = "bebytes2ulong"
    /\ Returned(bebytes2ulong(ulong2bebytes(<<0, 0, 0, 0>>, call.x), call.long_bits))

ParseAtr ==
    /\ call.fn = "_sc_parse_atr"
    /\ Returned(_sc_parse_atr(call.atr, OldAtrInfo))

NextUtil ==
    \/ ConcatenatePath
    \/ AppendPath
    \/ FormatOid
    \/ BebytesRoundTrip
    \/ ParseAtr

SpecUtil == InitUtil /\ [][NextUtil]_vars

IsConcat == ret.fn \in {"sc_concatenate_path", "sc_append_path"}

\* C17 as stated: concat(p, empty) is p, bytes, length and type tag, for
\* every path p, and concat(p, q) fails exactly if the lengths add up to
\* more than 16 or p or q is a DF_NAME
C17_ConcatEmptyIsSame ==
    IsConcat =>
        /\ call.p2.len = 0 =>
              /\ ret.res.r = SC_SUCCESS
              /\ ret.res.d.value = call.p1.value
              /\ ret.res.d.len = call.p1.len
              /\ ret.res.d.type = call.p1.type
        /\ ret.res.r # SC_SUCCESS <=>
              \/ call.p1.len + call.p2.len > 16
              \/ call.p1.type = SC_PATH_TYPE_DF_NAME
              \/ call.p2.type = SC_PATH_TYPE_DF_NAME

\* C17 amended: concat(p, empty) of paths that are no DF_NAME has the bytes
\* and the length of p and the type tag PATH, and concat(p, q) fails
\* exactly if the lengths add up to more than 16 or p or q is a DF_NAME
C17_ConcatEmptyIsSamePath ==
    IsConcat =>
        /\ /\ call.p2.len = 0
           /\ call.p1.type # SC_PATH_TYPE_DF_NAME
           /\ call.p2.type # SC_PATH_TYPE_DF_NAME
           => /\ ret.res.r = SC_SUCCESS
              /\ ret.res.d.value = call.p1.value
              /\ ret.res.d.len = call.p1.len
              /\ ret.res.d.type = SC_PATH_TYPE_PATH
        /\ ret.res.r # SC_SUCCESS <=>
              \/ call.p1.len + call.p2.len > 16
              \/ call.p1.type = SC_PATH_TYPE_DF_NAME
              \/ call.p2.type = SC_PATH_TYPE_DF_NAME

\* a FILE_ID of two bytes was concatenated with an empty path, and two
\* paths of more than 16 bytes together were refused
C17_Witness ==
    /\ IsConcat
    /\ \/ /\ call.p1.type = SC_PATH_TYPE_FILE_ID
          /\ call.p1.len = 2
          /\ call.p2.len = 0
          /\ call.p2.type = SC_PATH_TYPE_PATH
          /\ ret.res.r = SC_SUCCESS
       \/ /\ call.p1.len + call.p2.len > 16
          /\ ret.res.r = SC_ERROR_INVALID_ARGUMENTS

\* well-formed dotted decimal: digits and dots, beginning and ending with
\* a digit, no two dots in a row
WellFormedOid(in) ==
    /\ Len(in) > 0
    /\ \A i \in DOMAIN in : isdigit(in[i]) \/ in[i] = "."
    /\ isdigit(in[1]) /\ isdigit(in[Len(in)])
    /\ \A i \in 1..(Len(in) - 1) : ~(in[i] = "." /\ in[i + 1] = ".")

NumComponents(in) == Cardinality({i \in DOMAIN in : in[i] = "."}) + 1

\* C18: sc_format_oid refuses a well-formed OID of one component with
\* INVALID_ARGUMENTS, and succeeds on one of 2 to 16 components, the
\* components after the last one left at -1
C18_FormatOidLengths ==
    (ret.fn = "sc_format_oid" /\ WellFormedOid(call.in)) =>
        LET n == NumComponents(call.in)
        IN  /\ n = 1 => ret.res.r = SC_ERROR_INVALID_ARGUMENTS
            /\ n \in 2..16 =>
                  /\ ret.res.r = SC_SUCCESS
                  /\ \A i \in (n + 1)..16 : ret.res.value[i] = -1

\* C19: bebytes2ulong(ulong2bebytes(x)) = x for every x below 2^32, those
\* from 2^31 on included
C19_BebytesRoundTrip ==
    ret.fn = "bebytes2ulong" => ret.res = call.x

RECURSIVE InterfaceEnd(_, _, _)
\* the offset of the first byte after the interface bytes, where y is the
\* nibble announcing the bytes at offset pos: Len(atr) if the ATR ends
\* before them
InterfaceEnd(atr, pos, y) ==
    LET k == Cardinality({i \in 0..3 : Bit(y, i)})
        end == pos + k
    IN  IF end >= Len(atr) THEN Len(atr)
        ELSE IF Bit(y, 3) /\ atr[end] \div 16 # 0
        THEN InterfaceEnd(atr, end, atr[end] \div 16)
        ELSE end

HistMin(a, b) == IF a < b THEN a ELSE b

\* C20: for an ATR with a valid sync byte and a T0, hist_bytes_len is the
\* smaller of T0's low nibble and the bytes left after the interface
\* bytes, and hist_bytes is at the first of these; an empty ATR and an
\* invalid sync byte give INTERNAL and no history bytes
C20_AtrHistoryBytes ==
    ret.fn = "_sc_parse_atr" =>
        LET atr == call.atr
            info == ret.res.atr_info
        IN  IF Len(atr) = 0 \/ (atr[1] # \H3B /\ atr[1] # \H3F)
            THEN /\ ret.res.r = SC_ERROR_INTERNAL
                 /\ info.hist_bytes_len = 0
                 /\ info.hist_bytes = NULL
            ELSE Len(atr) >= 2 =>
                 LET end == InterfaceEnd(atr, 2, atr[2] \div 16)
                     left == Len(atr) - end
                 IN  /\ ret.res.r = SC_SUCCESS
                     /\ info.hist_bytes_len = HistMin(atr[2] % 16, left)
                     /\ left > 0 => info.hist_bytes = <<end>>
                     /\ atr = JcopAtr =>
                           /\ info.hist_bytes_len = 7
                           /\ SubSeq(atr, info.hist_bytes[1] + 1,
                                     info.hist_bytes[1] + info.hist_bytes_len)
                              = <<\H4A, \H43, \H4F, \H50, \H32, \H31, \H56>>

\* the ATR of the JCOP card was parsed
C20_Witness ==
    /\ ret.fn = "_sc_parse_atr"
    /\ call.atr = JcopAtr
    /\ ret.res.r = SC_SUCCESS
    /\ ret.res.atr_info.hist_bytes = <<9>>

\* the offsets into the ATR that _sc_parse_atr reads: p[0] unless the ATR
\* is empty, p[1] once the sync byte is valid, and *p each time a loop
\* takes an interface byte, from offset 2 up to where p stops
atr_reads(atr) ==
    IF Len(atr) = 0 THEN {}
    ELSE IF atr[1] # \H3B /\ atr[1] # \H3F THEN {0}
    ELSE LET t0 == IF Len(atr) >= 2 THEN atr[2] ELSE 0
             st1 == atr_round(atr, [p |-> 2, atr_len |-> Len(atr) - 2,
                                    tx |-> <<-1, -1, -1, -1>>], t0 \div 16, 0)
             st2 == atr_more(atr, st1)
         IN  {0, 1} \cup {i \in 2..Len(atr) + 4 : i < st2.p}

\* C30: the ATR parser reads no ATR byte at an offset >= atr.len, for every
\* ATR of at least one byte, an ATR of one valid sync byte included, and
\* the history bytes it reports lie inside the ATR
C30_AtrReadsInside ==
    (ret.fn = "_sc_parse_atr" /\ Len(call.atr) >= 1) =>
        LET info == ret.res.atr_info
        IN  /\ \A i \in atr_reads(call.atr) : i < Len(call.atr)
            /\ info.hist_bytes # NULL =>
                  /\ info.hist_bytes[1] >= 0
                  /\ info.hist_bytes_len >= 0
                  /\ info.hist_bytes[1] + info.hist_bytes_len <= Len(call.atr)

(***************************************************************************)
(* SpecAodf: an AODF entry decoded, encoded again and decoded again        *)
(* (pkcs15-pin.c). The ASN.1 codec is outside the source: an entry is the  *)
(* record of the fields of the templates c_asn1_pin_attr and               *)
(* c_asn1_com_ao_attr, each <<>> if absent; an INTEGER is its content      *)
(* octets in two's complement, a BIT STRING the set of its bits.           *)
(***************************************************************************)
SC_PKCS15_PIN_FLAG_LOCAL == 2
SC_PKCS15_PIN_TYPE_BCD == 0
SC_PKCS15_PIN_TYPE_ASCII_NUMERIC == 1

\* the INTEGER content octets of v, of one or two octets
asn1_encode_integer(v) ==
    IF v >= -128 /\ v <= 127 THEN <<v % 256>>
    ELSE <<(v \div 256) % 256, v % 256>>

\* the value of INTEGER content octets: the first octet carries the sign
asn1_decode_integer(b) ==
    LET first == IF b[1] >= 128 THEN b[1] - 256 ELSE b[1]
    IN  IF Len(b) = 1 THEN first ELSE first * 256 + b[2]

\* a bit field as the set of the bits that are set, and back
asn1_encode_bit_field(flags) == {i \in 0..15 : (flags \div (2 ^ i)) % 2 = 1}
RECURSIVE asn1_decode_bit_field(_)
asn1_decode_bit_field(bits) ==
    IF bits = {} THEN 0
    ELSE LET i == CHOOSE j \in bits : TRUE
         IN  2 ^ i + asn1_decode_bit_field(bits \ {i})

\* memset(&info, 0, sizeof(info)) of a struct sc_path
ZeroPath == FullPath(SC_PATH_TYPE_FILE_ID, <<>>, 0, 0, <<>>)

\* variant: a negative reference is left as decoded
sc_pkcs15_decode_aodf_entry_nofix(card, buf, mem) ==
    IF ~mem THEN [r |-> SC_ERROR_OUT_OF_MEMORY, data |-> NULL]
    ELSE
    LET flags == asn1_decode_bit_field(buf.pinFlags)
        type == asn1_decode_integer(buf.pinType)
        stored == asn1_decode_integer(buf.storedLength)
        max0 == IF buf.maxLength = <<>> THEN 0 ELSE asn1_decode_integer(buf.maxLength)
        max == IF max0 # 0 THEN max0
               ELSE IF card.max_pin_len # 0 THEN card.max_pin_len
               ELSE IF stored # 0
               THEN (IF type # SC_PKCS15_PIN_TYPE_BCD THEN stored ELSE 2 * stored)
               ELSE 8
        ref == IF buf.pinReference = <<>> THEN 0 ELSE asn1_decode_integer(buf.pinReference)
        path0 == IF buf.path = <<>> THEN ZeroPath ELSE buf.path[1]
        path == IF (flags \div SC_PKCS15_PIN_FLAG_LOCAL) % 2 = 1 /\ path0.len = 0
                THEN IF card.app # <<>> /\ Len(card.app[1].ddo_aid) # 0
                     THEN [path0 EXCEPT !.aid = card.app[1].ddo_aid]
                     ELSE IF card.file_app.path.len # 0 THEN card.file_app.path
                     ELSE path0
                ELSE path0
    IN  [r |-> SC_SUCCESS,
         data |-> [auth_type |-> SC_PKCS15_PIN_AUTH_TYPE_PIN,
                   auth_id |-> buf.authId,
                   path |-> path,
                   auth_method |-> SC_AC_CHV,
                   tries_left |-> -1,
                   max_tries |-> 0,
                   attrs |-> [flags |-> flags, type |-> type,
                              min_length |-> asn1_decode_integer(buf.minLength),
                              stored_length |-> stored,
                              max_length |-> max,
                              reference |-> ref,
                              pad_char |-> IF buf.padChar = <<>> THEN 0
                                           ELSE buf.padChar[1]]]]

\* sc_pkcs15_decode_aodf_entry for an entry buf the codec decodes: the code
\* returned and obj->data. mem: malloc succeeds
sc_pkcs15_decode_aodf_entry(card, buf, mem) ==
    LET d == sc_pkcs15_decode_aodf_entry_nofix(card, buf, mem)
    IN  IF d.r # SC_SUCCESS THEN d
        ELSE IF d.data.attrs.reference < 0
        THEN [d EXCEPT !.data.attrs.reference = @ + 256]
        ELSE d

\* sc_pkcs15_encode_aodf_entry: the code returned and the entry written
sc_pkcs15_encode_aodf_entry(info) ==
    IF info.auth_type # SC_PKCS15_PIN_AUTH_TYPE_PIN
    THEN [r |-> SC_ERROR_NOT_SUPPORTED, buf |-> NULL]
    ELSE [r |-> SC_SUCCESS,
          buf |-> [authId |-> info.auth_id,
                   pinFlags |-> asn1_encode_bit_field(info.attrs.flags),
                   pinType |-> asn1_encode_integer(info.attrs.type),
                   minLength |-> asn1_encode_integer(info.attrs.min_length),
                   storedLength |-> asn1_encode_integer(info.attrs.stored_length),
                   maxLength |-> IF info.attrs.max_length > 0
                                 THEN asn1_encode_integer(info.attrs.max_length)
                                 ELSE <<>>,
                   pinReference |-> IF info.attrs.reference >= 0
                                    THEN asn1_encode_integer(info.attrs.reference)
                                    ELSE <<>>,
                   padChar |-> <<info.attrs.pad_char>>,
                   path |-> IF info.path.len # 0 THEN <<info.path>> ELSE <<>>]]

AppPath == FullPath(SC_PATH_TYPE_PATH, <<\H3F, \H00, \H50, \H15>>, 0, -1, <<>>)
PinPath == FullPath(SC_PATH_TYPE_PATH, <<\H3F, \H00, \H50, \H15, \H44, \H01>>, 0, -1, <<>>)

\* the cards: card->max_pin_len, p15card->app (<<>> if NULL) and
\* p15card->file_app
AodfCards ==
    {[max_pin_len |-> m, app |-> a, file_app |-> [path |-> fp]] :
        m \in {0, 16},
        a \in {<<>>, <<[ddo_aid |-> <<>>]>>, <<[ddo_aid |-> <<\HA0, \H00, \H63>>]>>},
        fp \in {ZeroPath, AppPath}}

\* valid AODF entries; a pinReference of one octet from 0x80 on is the
\* reference as OpenSC 0.11.4 and older encoded it
AodfEntries ==
    {[authId |-> <<1>>, pinFlags |-> asn1_encode_bit_field(f),
      pinType |-> asn1_encode_integer(t),
      minLength |-> <<4>>, storedLength |-> sl, maxLength |-> ml,
      pinReference |-> ref, padChar |-> pc, path |-> pa] :
        f \in {0, SC_PKCS15_PIN_FLAG_LOCAL, \H32},
        t \in {SC_PKCS15_PIN_TYPE_BCD, SC_PKCS15_PIN_TYPE_ASCII_NUMERIC},
        sl \in {<<0>>, <<8>>},
        ml \in {<<>>, <<12>>, <<0, \H80>>},
        ref \in {<<>>, <<0>>, <<1>>, <<\H7F>>, <<0, \H80>>, <<\H80>>, <<\HFF>>},
        pc \in {<<>>, <<\HFF>>},
        pa \in {<<>>, <<PinPath>>}}

InitAodf ==
    /\ IdleCard
    /\ ret = NoRet
    /\ file = NoFile
    /\ \E card \in AodfCards, buf \in AodfEntries :
          call = [fn |-> "aodf", card |-> card, buf |-> buf]

AodfStep(step) ==
    /\ ret' = [fn |-> "aodf",
               steps |-> IF ret = NoRet THEN <<step>> ELSE Append(ret.steps, step)]
    /\ UNCHANGED <<p15card, reader, token, lock, last, thr, wire, call, file>>

\* sc_pkcs15_decode_aodf_entry on the entry of the card, and on the entry
\* sc_pkcs15_encode_aodf_entry wrote
DecodeAodfEntry ==
    /\ call.fn = "aodf"
    /\ \E mem \in BOOLEAN :
          \/ /\ ret = NoRet
             /\ AodfStep(sc_pkcs15_decode_aodf_entry(call.card, call.buf, mem))
          \/ /\ ret # NoRet
             /\ Len(ret.steps) = 2
             /\ ret.steps[2].r = SC_SUCCESS
             /\ AodfStep(sc_pkcs15_decode_aodf_entry(call.card, ret.steps[2].buf, mem))

\* sc_pkcs15_encode_aodf_entry on the object decoded
EncodeAodfEntry ==
    /\ call.fn = "aodf"
    /\ ret # NoRet
    /\ Len(ret.steps) = 1
    /\ ret.steps[1].r = SC_SUCCESS
    /\ AodfStep(sc_pkcs15_encode_aodf_entry(ret.steps[1].data))

NextAodf ==
    \/ DecodeAodfEntry
    \/ EncodeAodfEntry

SpecAodf == InitAodf /\ [][NextAodf]_vars

Redecoded ==
    /\ ret # NoRet
    /\ ret.fn = "aodf"
    /\ Len(ret.steps) = 3
    /\ ret.steps[3].r = SC_SUCCESS

\* C21: an AODF entry decoded, encoded and decoded again gives the
\* auth_info of the first decode: flags, type, min, stored and max length,
\* reference (after +256), pad_char, path and auth_id
C21_AodfRoundTrip ==
    Redecoded =>
        LET a == ret.steps[1].data
            b == ret.steps[3].data
        IN  /\ b.attrs.flags = a.attrs.flags
            /\ b.attrs.type = a.attrs.type
            /\ b.attrs.min_length = a.attrs.min_length
            /\ b.attrs.stored_length = a.attrs.stored_length
            /\ b.attrs.max_length = a.attrs.max_length
            /\ b.attrs.reference = a.attrs.reference
            /\ b.attrs.reference >= 0
            /\ b.attrs.pad_char = a.attrs.pad_char
            /\ b.path = a.path
            /\ b.auth_id = a.auth_id

\* the three normalizations at once: an entry of a local PIN without path
\* and maxLength, its reference encoded as a negative value, went through
\* decode, encode and decode, the path inherited from the application
C21_Witness ==
    /\ Redecoded
    /\ call.buf.pinReference = <<\H80>>
    /\ call.buf.maxLength = <<>>
    /\ call.buf.path = <<>>
    /\ ret.steps[1].data.attrs.reference = 128
    /\ ret.steps[1].data.path = AppPath
    /\ ret.steps[2].buf.pinReference = <<0, \H80>>
    /\ ret.steps[2].buf.path = <<AppPath>>

(***************************************************************************)
(* SpecCache: the calls that change the pin cache, step by step, several   *)
(* threads: sc_pkcs15_verify_pin, sc_pkcs15_pincache_revalidate (which     *)
(* calls sc_pkcs15_verify_pin) and sc_pkcs15_pincache_clear.  thr[t].at is *)
(* the position of thread t, thr[t].op the call it made, thr[t].r the      *)
(* result of its sc_pkcs15_verify_pin.  last is the last change to the pin *)
(* cache: what it was, the thread that made it and the owner of the card   *)
(* lock at that time.                                                      *)
(***************************************************************************)
CachePin == <<1>>

InitCache ==
    /\ p15card = [opts |-> [use_pin_cache |-> TRUE, pin_cache_counter |-> MaxCounter],
                  obj_list |-> <<
                     Object(SC_PKCS15_TYPE_AUTH_PIN, <<>>, 0,
                            AuthInfo(<<1>>, 0, SC_PKCS15_PIN_AUTH_TYPE_PIN, 1, 2, 2, 1)),
                     Object(SC_PKCS15_TYPE_PRKEY_RSA, <<1>>, 0, NULL) >>]
    /\ reader = [capabilities |-> {}]
    /\ token = [ref \in 1..1 |-> [value |-> CachePin, tries |-> MaxTries]]
    /\ lock = NoLock
    /\ last = NoLast
    /\ thr = IdleThr
    /\ wire = IdleWire
    /\ call = NoCall
    /\ ret = NoRet
    /\ file = NoFile

\* a step of thread t; what names the change it makes to the pin cache, if
\* it makes one
CacheStep(t, next, p15, lk, what) ==
    /\ thr' = [thr EXCEPT ![t] = next]
    /\ p15card' = p15
    /\ lock' = lk
    /\ last' = IF what = "none" \/ p15 = p15card THEN last
               ELSE [op |-> what, by |-> t, owner |-> lock.owner, count |-> lock.count]
    /\ UNCHANGED <<reader, token, wire, call, ret, file>>

InCall(op, at, obj) == [op |-> op, at |-> at, obj |-> obj, r |-> SC_SUCCESS]

\* sc_pkcs15_verify_pin: entry, the checks passed, up to sc_lock
CacheCallVerify(t) ==
    /\ thr[t].at = "idle"
    /\ \E p \in AuthObjs(p15card) :
          CacheStep(t, InCall("verify_pin", "lock", p), p15card, lock, "none")

\* sc_pkcs15_verify_pin: sc_lock, and the return when it fails
CacheLock(t) ==
    /\ thr[t].at = "lock"
    /\ \/ /\ CanLock(lock, t)
          /\ CacheStep(t, [thr[t] EXCEPT !.at = "pin_cmd"], p15card, sc_lock(lock, t), "none")
       \/ CacheStep(t, [thr[t] EXCEPT !.at = "return", !.r = SC_ERROR_READER_LOCKED],
                    p15card, lock, "none")

\* sc_pkcs15_verify_pin: sc_pin_cmd and, if it succeeds, sc_pkcs15_pincache_add
CachePinCmd(t) ==
    /\ thr[t].at = "pin_cmd"
    /\ \/ CacheStep(t, [thr[t] EXCEPT !.at = "out"],
                    sc_pkcs15_pincache_add(p15card, thr[t].obj, CachePin), lock, "store")
       \/ CacheStep(t, [thr[t] EXCEPT !.at = "out", !.r = SC_ERROR_PIN_CODE_INCORRECT],
                    p15card, lock, "none")

\* sc_pkcs15_verify_pin: out, sc_unlock
CacheOut(t) ==
    /\ thr[t].at = "out"
    /\ CacheStep(t, [thr[t] EXCEPT !.at = "return"], p15card, sc_unlock(lock, t), "none")

\* sc_pkcs15_verify_pin returns: to its caller, or into
\* sc_pkcs15_pincache_revalidate, which wipes the content if it failed
CacheReturn(t) ==
    /\ thr[t].at = "return"
    /\ IF thr[t].op = "pincache_revalidate" /\ thr[t].r # SC_SUCCESS
       THEN CacheStep(t, Idle,
                      [p15card EXCEPT !.obj_list[thr[t].obj] = sc_pkcs15_free_object_content(@)],
                      lock, "wipe")
       ELSE CacheStep(t, Idle, p15card, lock, "none")

\* sc_pkcs15_pincache_revalidate up to its call of sc_pkcs15_verify_pin
CacheCallRevalidate(t) ==
    /\ thr[t].at = "idle"
    /\ \E o \in DOMAIN p15card.obj_list :
       LET pin_obj == sc_pkcs15_find_pin_by_auth_id(p15card, p15card.obj_list[o].auth_id)
       IN  IF p15card.obj_list[o].user_consent # 0 \/ pin_obj = 0
           THEN CacheStep(t, Idle, p15card, lock, "none")
           ELSE IF p15card.obj_list[pin_obj].usage_counter >= p15card.opts.pin_cache_counter
           THEN CacheStep(t, Idle,
                          [p15card EXCEPT !.obj_list[pin_obj] = sc_pkcs15_free_object_content(@)],
                          lock, "wipe")
           ELSE IF ~HasContent(p15card.obj_list[pin_obj])
           THEN CacheStep(t, Idle, p15card, lock, "none")
           ELSE CacheStep(t, InCall("pincache_revalidate", "lock", pin_obj),
                          [p15card EXCEPT !.obj_list[pin_obj].usage_counter = @ + 1],
                          lock, "count")

\* sc_pkcs15_pincache_clear
CacheCallClear(t) ==
    /\ thr[t].at = "idle"
    /\ CacheStep(t, Idle, sc_pkcs15_pincache_clear(p15card), lock, "clear")

NextCache ==
    \E t \in Threads :
        \/ CacheCallVerify(t)
        \/ CacheLock(t)
        \/ CachePinCmd(t)
        \/ CacheOut(t)
        \/ CacheReturn(t)
        \/ CacheCallRevalidate(t)
        \/ CacheCallClear(t)

SpecCache == InitCache /\ [][NextCache]_vars

\* C22: every change to the pin cache (content stored, usage counter reset
\* or incremented, content wiped by pincache_revalidate or pincache_clear)
\* is made by a thread that holds the card lock
C22_CacheChangesUnderLock ==
    last.op # "none" => (last.owner = last.by /\ last.count > 0)

(***************************************************************************)
(* SpecUnblock: the PIN command sc_pkcs15_unblock_pin builds, for a PIN    *)
(* object and the PUK object that protects it, if there is one, over a     *)
(* grid of attributes of the two.                                          *)
(***************************************************************************)
\* struct sc_pkcs15_pin_attributes without the flags
PinAttrs(min, stored, max, ref, pad_char, type) ==
    [min_length |-> min, stored_length |-> stored, max_length |-> max,
     reference |-> ref, pad_char |-> pad_char, type |-> type]

\* data.pinN.encoding as the switch over the PIN type leaves it after memset
PinEncoding(type) ==
    IF type = SC_PKCS15_PIN_TYPE_BCD THEN "SC_PIN_ENCODING_BCD"
    ELSE IF type = SC_PKCS15_PIN_TYPE_ASCII_NUMERIC THEN "SC_PIN_ENCODING_ASCII"
    ELSE "0"

\* one half of struct sc_pin_cmd_data, described by the attributes attrs
PinCmdPin(data, attrs, type) ==
    [data |-> data, len |-> PinLen(data), pad_char |-> attrs.pad_char,
     min_length |-> attrs.min_length, max_length |-> attrs.max_length,
     pad_length |-> attrs.stored_length, encoding |-> PinEncoding(type)]

\* sc_pkcs15_unblock_pin: the sc_pin_cmd_data set between sc_lock and
\* sc_pin_cmd
unblock_pin_data(auth_info, puk_info, puk, newpin) ==
    [cmd |-> "SC_PIN_CMD_UNBLOCK", pin_type |-> SC_AC_CHV,
     pin_reference |-> auth_info.attrs.reference,
     pin1 |-> PinCmdPin(puk, auth_info.attrs, auth_info.attrs.type),
     pin2 |-> PinCmdPin(newpin, puk_info.attrs, puk_info.attrs.type)]

UnblockAttrs(ref) ==
    {PinAttrs(min, stored, max, ref, pad, type) :
        min \in {1, 2}, stored \in {0, 2}, max \in {2, 4}, pad \in {0, \HFF},
        type \in {SC_PKCS15_PIN_TYPE_BCD, SC_PKCS15_PIN_TYPE_ASCII_NUMERIC, 2}}

\* a PIN object (own id <<1>>, protected by <<2>>) and, with_puk, the PUK
\* object <<2>>
UnblockObjs(pin_attrs, puk_attrs, with_puk) ==
    LET pin == Object(SC_PKCS15_TYPE_AUTH_PIN, <<2>>, 0,
                      [AuthInfo(<<1>>, 0, SC_PKCS15_PIN_AUTH_TYPE_PIN, 0, 0, 0, 1)
                          EXCEPT !.attrs = pin_attrs])
        pukobj == Object(SC_PKCS15_TYPE_AUTH_PIN, <<>>, 0,
                         [AuthInfo(<<2>>, 0, SC_PKCS15_PIN_AUTH_TYPE_PIN, 0, 0, 0, 2)
                             EXCEPT !.attrs = puk_attrs])
    IN  IF with_puk THEN <<pin, pukobj>> ELSE <<pin>>

InitUnblock ==
    /\ \E pin_attrs \in UnblockAttrs(1), puk_attrs \in UnblockAttrs(2), with_puk \in BOOLEAN :
          p15card = [opts |-> [use_pin_cache |-> FALSE, pin_cache_counter |-> 0],
                     obj_list |-> UnblockObjs(pin_attrs, puk_attrs, with_puk)]
    /\ reader = [capabilities |-> {}]
    /\ token = <<>>
    /\ lock = NoLock
    /\ last = NoLast
    /\ thr = IdleThr
    /\ wire = IdleWire
    /\ call = [fn |-> "sc_pkcs15_unblock_pin", pin_obj |-> 1, puk |-> <<1, 1>>,
               newpin |-> <<2, 2>>]
    /\ ret = NoRet
    /\ file = NoFile

\* sc_pkcs15_unblock_pin from its checks to the PIN command it hands to
\* sc_pin_cmd; a call the checks refuse returns their code
UnblockPinData ==
    /\ call.fn = "sc_pkcs15_unblock_pin"
    /\ LET auth_info == p15card.obj_list[call.pin_obj].data
           puk_info == PukInfo(p15card, call.pin_obj)
           chk == unblock_pin_check(reader, auth_info, puk_info,
                                    PinLen(call.puk), PinLen(call.newpin))
       IN  Returned([r |-> chk,
                     data |-> IF chk # SC_SUCCESS THEN [cmd |-> "none"]
                              ELSE unblock_pin_data(auth_info, puk_info,
                                                    call.puk, call.newpin)])

NextUnblock == UnblockPinData

SpecUnblock == InitUnblock /\ [][NextUnblock]_vars

\* the attributes that describe one half of the PIN command
Describes(half, attrs) ==
    /\ half.pad_char = attrs.pad_char
    /\ half.min_length = attrs.min_length
    /\ half.max_length = attrs.max_length
    /\ half.pad_length = attrs.stored_length
    /\ half.encoding = PinEncoding(attrs.type)

\* C23: in unblock_pin pin1, which carries the PUK, is described by the
\* attributes of the PUK object found by find_pin_by_auth_id, by the PIN's
\* own if there is none; pin2, the new PIN, by the PIN's own attributes
C23_UnblockHalvesDescribed ==
    (ret.fn = "sc_pkcs15_unblock_pin" /\ ret.res.r = SC_SUCCESS) =>
        LET auth_info == p15card.obj_list[call.pin_obj].data
            puk_obj == sc_pkcs15_find_pin_by_auth_id(p15card,
                                                     p15card.obj_list[call.pin_obj].auth_id)
            puk_attrs == IF puk_obj # 0 THEN p15card.obj_list[puk_obj].data.attrs
                         ELSE auth_info.attrs
        IN  /\ ret.res.data.pin1.data = call.puk
            /\ ret.res.data.pin2.data = call.newpin
            /\ Describes(ret.res.data.pin1, puk_attrs)
            /\ Describes(ret.res.data.pin2, auth_info.attrs)

(***************************************************************************)
(* SpecPinBuf: the buffer sbuf in which iso7816_verify,                    *)
(* iso7816_change_reference_data and iso7816_reset_retry_counter stage the *)
(* PIN bytes.  A cell of sbuf that was never written holds -1.  Each       *)
(* operator gives the code returned, whether the APDU was handed to        *)
(* sc_transmit_apdu, its data field as handed over, and sbuf at return.    *)
(***************************************************************************)
\* u8 sbuf[SC_MAX_APDU_BUFFER_SIZE], on the stack
NewSbuf == [i \in 1..SC_MAX_APDU_BUFFER_SIZE |-> -1]

\* memcpy(buf + off, from, Len(from)) and memset(buf, c, n)
memcpy(buf, off, from) ==
    [i \in DOMAIN buf |-> IF i > off /\ i <= off + Len(from) THEN from[i - off] ELSE buf[i]]
memset(buf, c, n) == [i \in DOMAIN buf |-> IF i <= n THEN c ELSE buf[i]]

NotSent(r) == [r |-> r, sent |-> FALSE, data |-> <<>>, sbuf |-> NewSbuf]

\* from apdu.data = sbuf to the return: sc_transmit_apdu, then memset
Staged(sbuf, len, r) ==
    [r |-> r, sent |-> TRUE, data |-> SubSeq(sbuf, 1, len), sbuf |-> memset(sbuf, 0, len)]

\* variant: sbuf is cleared only after the test of the transmission
verify_sbuf_late(type, pin, resp) ==
    LET v == iso7816_verify(type, Len(pin), resp, [ptr |-> FALSE, val |-> -1, wrote |-> FALSE])
        sbuf == memcpy(NewSbuf, 0, pin)
    IN  IF Len(pin) >= SC_MAX_APDU_BUFFER_SIZE \/ type # SC_AC_CHV THEN NotSent(v.r)
        ELSE [r |-> v.r, sent |-> TRUE, data |-> pin,
              sbuf |-> IF resp.r # SC_SUCCESS THEN sbuf ELSE memset(sbuf, 0, Len(pin))]

\* iso7816_verify, with its buffer
verify_sbuf(type, pin, resp) ==
    LET v == iso7816_verify(type, Len(pin), resp, [ptr |-> FALSE, val |-> -1, wrote |-> FALSE])
    IN  IF Len(pin) >= SC_MAX_APDU_BUFFER_SIZE \/ type # SC_AC_CHV THEN NotSent(v.r)
        ELSE Staged(memcpy(NewSbuf, 0, pin), Len(pin), v.r)

\* iso7816_change_reference_data, with its buffer
change_reference_data_sbuf(type, old, new, resp) ==
    LET v == iso7816_change_reference_data(type, Len(old), Len(new), resp,
                                           [ptr |-> FALSE, val |-> -1, wrote |-> FALSE])
        len == Len(old) + Len(new)
    IN  IF len >= SC_MAX_APDU_BUFFER_SIZE \/ type # SC_AC_CHV THEN NotSent(v.r)
        ELSE Staged(memcpy(memcpy(NewSbuf, 0, old), Len(old), new), len, v.r)

\* iso7816_reset_retry_counter, with its buffer
reset_retry_counter_sbuf(type, puk, new, resp) ==
    LET r == iso7816_reset_retry_counter(type, Len(puk), Len(new), resp)
        len == Len(puk) + Len(new)
    IN  IF len >= SC_MAX_APDU_BUFFER_SIZE \/ type # SC_AC_CHV THEN NotSent(r)
        ELSE Staged(memcpy(memcpy(NewSbuf, 0, puk), Len(puk), new), len, r)

\* PIN bytes, none of them 0; the last is too long for the buffer
BufPins == {<<>>, <<\H31>>, <<\H31, \H32, \H33, \H34>>,
            [i \in 1..SC_MAX_APDU_BUFFER_SIZE |-> \H39]}
BufResps == {Resp(SC_ERROR_TRANSMIT_FAILED, 0, 0), Resp(SC_SUCCESS, \H90, \H00),
             Resp(SC_SUCCESS, \H63, \HC2), Resp(SC_SUCCESS, \H63, \H00),
             Resp(SC_SUCCESS, \H69, \H83), Resp(SC_SUCCESS, \H6A, \H82)}

InitPinBuf ==
    /\ IdleCard
    /\ ret = NoRet
    /\ file = NoFile
    /\ \E fn \in {"iso7816_verify", "iso7816_change_reference_data",
                  "iso7816_reset_retry_counter"},
          type \in {SC_AC_CHV, SC_AC_TERM}, pin1 \in BufPins, pin2 \in BufPins,
          resp \in BufResps :
          /\ fn = "iso7816_verify" => pin2 = <<>>
          /\ call = [fn |-> fn, type |-> type, pin1 |-> pin1, pin2 |-> pin2, resp |-> resp]

BufVerify ==
    /\ call.fn = "iso7816_verify"
    /\ Returned(verify_sbuf(call.type, call.pin1, call.resp))

BufChangeReferenceData ==
    /\ call.fn = "iso7816_change_reference_data"
    /\ Returned(change_reference_data_sbuf(call.type, call.pin1, call.pin2, call.resp))

BufResetRetryCounter ==
    /\ call.fn = "iso7816_reset_retry_counter"
    /\ Returned(reset_retry_counter_sbuf(call.type, call.pin1, call.pin2, call.resp))

NextPinBuf ==
    \/ BufVerify
    \/ BufChangeReferenceData
    \/ BufResetRetryCounter

SpecPinBuf == InitPinBuf /\ [][NextPinBuf]_vars

PinBufReturned ==
    ret.fn \in {"iso7816_verify", "iso7816_change_reference_data",
                "iso7816_reset_retry_counter"}

\* C24: once VERIFY, CHANGE REFERENCE DATA or RESET RETRY COUNTER has
\* handed its APDU, which carries the PIN bytes, to the transmit layer, the
\* part of the staging buffer that held them is all zero at return,
\* whatever the transmission and the card answered, and no cell of the
\* buffer holds a PIN byte
C24_StagingBufferZeroed ==
    (PinBufReturned /\ ret.res.sent) =>
        /\ ret.res.data = call.pin1 \o call.pin2
        /\ \A i \in 1..(Len(call.pin1) + Len(call.pin2)) : ret.res.sbuf[i] = 0
        /\ \A i \in DOMAIN ret.res.sbuf : ret.res.sbuf[i] \in {0, -1}

\* a PIN of four bytes was staged and handed over, and the transmission
\* failed
C24_Witness ==
    /\ PinBufReturned
    /\ ret.res.sent
    /\ Len(ret.res.data) >= 4
    /\ call.resp.r = SC_ERROR_TRANSMIT_FAILED
    /\ ret.res.r = SC_ERROR_TRANSMIT_FAILED
    /\ ret.res.sbuf[4] = 0

(***************************************************************************)
(* SpecSse: iso7816_set_security_env as a function of the environment, the *)
(* SE number, whether sc_lock succeeds and the card's answers, giving the  *)
(* code returned and the APDUs handed to sc_transmit_apdu, in order.       *)
(***************************************************************************)
SC_SEC_OPERATION_DECIPHER == "SC_SEC_OPERATION_DECIPHER"
SC_SEC_OPERATION_SIGN == "SC_SEC_OPERATION_SIGN"
SC_SEC_OPERATION_OTHER == "SC_SEC_OPERATION_OTHER"

\* sc_format_apdu: INS, P1 and P2 are bytes of the APDU
sse_apdu(ins, p1, p2, datalen) ==
    [ins |-> ins % 256, p1 |-> p1 % 256, p2 |-> p2 % 256, datalen |-> datalen]

\* the MSE APDU of the operation
sse_mse_apdu(env) ==
    IF env.operation = SC_SEC_OPERATION_DECIPHER
    THEN sse_apdu(\H22, \H41, \HB8, sse_datalen(env))
    ELSE sse_apdu(\H22, \H81, \HB6, sse_datalen(env))

SseResult(r, sent) == [r |-> r, sent |-> sent]

\* variant: an MSE APDU that failed does not end the call
iso7816_set_security_env_goes_on(env, se_num, lock_r, resp1, resp2) ==
    LET mse == sse_mse_apdu(env)
        first == IF mse.datalen # 0 THEN <<mse>> ELSE <<>>
    IN  IF env.operation \notin {SC_SEC_OPERATION_DECIPHER, SC_SEC_OPERATION_SIGN}
        THEN SseResult(SC_ERROR_INVALID_ARGUMENTS, <<>>)
        ELSE IF se_num > 0 /\ lock_r # SC_SUCCESS THEN SseResult(lock_r, <<>>)
        ELSE IF se_num <= 0 THEN SseResult(SC_SUCCESS, first)
        ELSE SseResult(IF resp2.r # SC_SUCCESS THEN resp2.r
                       ELSE iso7816_check_sw(resp2.sw1, resp2.sw2),
                       first \o << sse_apdu(\H22, \HF2, se_num, 0) >>)

\* iso7816_set_security_env
iso7816_set_security_env(env, se_num, lock_r, resp1, resp2) ==
    LET mse == sse_mse_apdu(env)
        first == IF mse.datalen # 0 THEN <<mse>> ELSE <<>>
        r1 == IF mse.datalen = 0 THEN SC_SUCCESS
              ELSE IF resp1.r # SC_SUCCESS THEN resp1.r
              ELSE iso7816_check_sw(resp1.sw1, resp1.sw2)
    IN  IF env.operation \notin {SC_SEC_OPERATION_DECIPHER, SC_SEC_OPERATION_SIGN}
        THEN SseResult(SC_ERROR_INVALID_ARGUMENTS, <<>>)
        ELSE IF se_num > 0 /\ lock_r # SC_SUCCESS THEN SseResult(lock_r, <<>>)
        ELSE IF r1 # SC_SUCCESS THEN SseResult(r1, first)
        ELSE IF se_num <= 0 THEN SseResult(SC_SUCCESS, first)
        ELSE SseResult(IF resp2.r # SC_SUCCESS THEN resp2.r
                       ELSE iso7816_check_sw(resp2.sw1, resp2.sw2),
                       first \o << sse_apdu(\H22, \HF2, se_num, 0) >>)

SseEnvs == [operation : {SC_SEC_OPERATION_DECIPHER, SC_SEC_OPERATION_SIGN,
                         SC_SEC_OPERATION_OTHER},
            flags : SUBSET {SC_SEC_ENV_ALG_REF_PRESENT, SC_SEC_ENV_KEY_REF_PRESENT},
            file_ref_len : {2}, key_ref_len : {1}]
SseNums == {-1, 0, 1, 2}
SseResps == {Resp(SC_ERROR_TRANSMIT_FAILED, 0, 0), Resp(SC_SUCCESS, \H90, \H00),
             Resp(SC_SUCCESS, \H6A, \H82)}

InitSse ==
    /\ IdleCard
    /\ ret = NoRet
    /\ file = NoFile
    /\ \E env \in SseEnvs, se_num \in SseNums,
          lock_r \in {SC_SUCCESS, SC_ERROR_READER_LOCKED},
          resp1 \in SseResps, resp2 \in SseResps :
          call = [fn |-> "iso7816_set_security_env", env |-> env, se_num |-> se_num,
                  lock_r |-> lock_r, resp1 |-> resp1, resp2 |-> resp2]

SetSecurityEnv ==
    /\ call.fn = "iso7816_set_security_env"
    /\ Returned(iso7816_set_security_env(call.env, call.se_num, call.lock_r,
                                         call.resp1, call.resp2))

NextSse == SetSecurityEnv

SpecSse == InitSse /\ [][NextSse]_vars

IsMseSet(a) == a.ins = \H22 /\ a.p1 \in {\H41, \H81}
IsSetSe(a) == a.ins = \H22 /\ a.p1 = \HF2

MaxOuter == 1

\* the locks thread t holds
Held(lk, t) == IF lk.owner = t THEN lk.count ELSE 0

NoArgs == [pin1 |-> <<>>, pin2 |-> <<>>]
LockPins == {<<>>, <<1>>, <<2>>}
LockNewPins == {<<>>, <<2>>}
LockSeNums == {0, 1}
Callers == {1}

InitLock ==
    /\ p15card = [opts |-> [use_pin_cache |-> TRUE, pin_cache_counter |-> MaxCounter],
                  obj_list |-> ObjList(0)]
    /\ reader = [capabilities |-> {}]
    /\ token = [ref \in 1..1 |-> [value |-> <<1>>, tries |-> MaxTries]]
    /\ lock = NoLock
    /\ last = NoLast
    /\ thr = IdleThr
    /\ wire = IdleWire
    /\ call = [args |-> NoArgs, outer |-> [t \in Threads |-> 0], entry |-> 0]
    /\ ret = [fn |-> "none", path |-> "none", entry |-> 0, exit |-> 0, sent |-> 0]
    /\ file = NoFile

\* one step of thread t inside a call
LockStep(t, next, lk, tx, p15, tok) ==
    /\ thr' = [thr EXCEPT ![t] = next]
    /\ lock' = lk
    /\ wire' = IF tx THEN [tx |-> t] ELSE wire
    /\ p15card' = p15
    /\ token' = tok
    /\ UNCHANGED <<reader, last, call, ret, file>>

\* the return of thread t's call, lk being the lock it leaves and sent the
\* number of APDUs it has handed to the reader
LockReturn(t, lk, tx, sent) ==
    /\ thr' = [thr EXCEPT ![t] = Idle]
    /\ lock' = lk
    /\ wire' = IF tx THEN [tx |-> t] ELSE wire
    /\ ret' = [fn |-> thr[t].op, path |-> thr[t].at,
               entry |-> call.entry, exit |-> Held(lk, t), sent |-> sent]
    /\ call' = [call EXCEPT !.args = NoArgs, !.entry = 0]
    /\ UNCHANGED <<p15card, reader, token, last, file>>

\* a thread takes the card lock outside a call
AppLock(t) ==
    /\ thr[t].at = "idle"
    /\ call.outer[t] < MaxOuter
    /\ CanLock(lock, t)
    /\ lock' = sc_lock(lock, t)
    /\ call' = [call EXCEPT !.outer[t] = @ + 1]
    /\ UNCHANGED <<p15card, reader, token, last, thr, wire, ret, file>>

\* and releases it
AppUnlock(t) ==
    /\ thr[t].at = "idle"
    /\ call.outer[t] > 0
    /\ lock' = sc_unlock(lock, t)
    /\ call' = [call EXCEPT !.outer[t] = @ - 1]
    /\ UNCHANGED <<p15card, reader, token, last, thr, wire, ret, file>>

\* verify_pin, change_pin, unblock_pin are called
LockCallPin(t) ==
    /\ thr[t].at = "idle"
    /\ \E op \in PinOps, p \in AuthObjs(p15card), pin1 \in LockPins, pin2 \in LockNewPins :
          /\ op = "verify_pin" => pin2 = <<>>
          /\ thr' = [thr EXCEPT ![t] = [Idle EXCEPT !.op = op, !.at = "check", !.obj = p]]
          /\ call' = [call EXCEPT !.args = [pin1 |-> pin1, pin2 |-> pin2],
                                  !.entry = Held(lock, t)]
    /\ UNCHANGED <<p15card, reader, token, lock, last, wire, ret, file>>

\* the checks of the call, as the call makes them
pin_call_check(op, rd, p15, p, args) ==
    LET auth_info == p15.obj_list[p].data
    IN  CASE op = "verify_pin" -> verify_pin_check(rd, auth_info, PinLen(args.pin1))
          [] op = "change_pin" ->
                change_pin_check(rd, auth_info, PinLen(args.pin1), PinLen(args.pin2))
          [] op = "unblock_pin" ->
                unblock_pin_check(rd, auth_info, PukInfo(p15, p),
                                  PinLen(args.pin1), PinLen(args.pin2))

\* variant: the call goes on whatever its checks say
pin_call_rejects_never(op, rd, p15, p, args) == FALSE

\* the call returns when its checks fail, before sc_lock
pin_call_rejects(op, rd, p15, p, args) == pin_call_check(op, rd, p15, p, args) # SC_SUCCESS

\* the type and length checks; a call that fails them returns
LockCheck(t) ==
    /\ thr[t].at = "check"
    /\ IF pin_call_rejects(thr[t].op, reader, p15card, thr[t].obj, call.args)
       THEN LockReturn(t, lock, FALSE, thr[t].sent)
       ELSE LockStep(t, Moved(t, "lock"), lock, FALSE, p15card, token)

\* sc_lock, and the return when it fails
LockPinLock(t) ==
    /\ thr[t].at = "lock"
    /\ \/ /\ CanLock(lock, t)
          /\ LockStep(t, [thr[t] EXCEPT !.locked = 1,
                            !.at = IF p15card.obj_list[thr[t].obj].data.path_len > 0
                                   THEN "select" ELSE "pin_cmd"],
                      sc_lock(lock, t), FALSE, p15card, token)
       \/ LockReturn(t, lock, FALSE, thr[t].sent)

\* sc_select_file of the PIN path: on failure goto out
LockPinSelect(t) ==
    /\ thr[t].at = "select"
    /\ \E ok \in BOOLEAN :
          LockStep(t, Transmitted(t, IF ok THEN "pin_cmd" ELSE "out"),
                   lock, TRUE, p15card, token)

\* sc_pin_cmd and what follows it up to out: the chip answers, tries_left
\* is written, the PIN is cached on success
LockPinCmd(t) ==
    /\ thr[t].at = "pin_cmd"
    /\ \E out \in {"ok", "ok6300", "tx"} :
          LET e == [out |-> out, padpin |-> <<1>>, padpin2 |-> <<1>>]
              a == call.args
              res == CASE thr[t].op = "verify_pin" ->
                             sc_pkcs15_verify_pin(p15card, reader, token, thr[t].obj, a.pin1, e)
                       [] thr[t].op = "change_pin" ->
                             sc_pkcs15_change_pin(p15card, reader, token, thr[t].obj,
                                                  a.pin1, a.pin2, e)
                       [] thr[t].op = "unblock_pin" ->
                             sc_pkcs15_unblock_pin(p15card, reader, token, thr[t].obj,
                                                   a.pin1, a.pin2, e)
          IN  LockStep(t, Transmitted(t, "out"), lock, TRUE, res.p15card, res.token)

\* out: sc_unlock and return
LockPinOut(t) ==
    /\ thr[t].at = "out"
    /\ LockReturn(t, sc_unlock(lock, t), FALSE, thr[t].sent)

\* variant: the error path leaves the lock as it is
sse_err_unlock_never(lk, t, locked) == lk

\* err: if (locked) sc_unlock(card)
sse_err_unlock(lk, t, locked) == IF locked # 0 THEN sc_unlock(lk, t) ELSE lk

\* iso7816_set_security_env is called and builds the MSE APDU
LockCallSse(t) ==
    /\ thr[t].at = "idle"
    /\ \E env \in SecEnvs, se_num \in LockSeNums :
          /\ thr' = [thr EXCEPT ![t] =
                        [Idle EXCEPT !.op = "set_security_env", !.se_num = se_num,
                                     !.datalen = sse_datalen(env),
                                     !.at = IF sse_takes_lock(se_num) THEN "sse_lock"
                                            ELSE "sse_mse"]]
          /\ call' = [call EXCEPT !.args = NoArgs, !.entry = Held(lock, t)]
    /\ UNCHANGED <<p15card, reader, token, lock, last, wire, ret, file>>

\* sc_lock for a stored SE number, and the return when it fails
LockSseLock(t) ==
    /\ thr[t].at = "sse_lock"
    /\ \/ /\ CanLock(lock, t)
          /\ LockStep(t, [thr[t] EXCEPT !.locked = 1, !.at = "sse_mse"],
                      sc_lock(lock, t), FALSE, p15card, token)
       \/ LockReturn(t, lock, FALSE, thr[t].sent)

\* the MSE APDU, sent when it has a data field; then the test of se_num
LockSseMse(t) ==
    /\ thr[t].at = "sse_mse"
    /\ IF thr[t].datalen # 0
       THEN \E ok \in BOOLEAN :
               IF ~ok THEN LockStep(t, Transmitted(t, "sse_err"), lock, TRUE, p15card, token)
               ELSE IF thr[t].se_num <= 0
               THEN LockReturn(t, lock, TRUE, thr[t].sent + 1)
               ELSE LockStep(t, Transmitted(t, "sse_set"), lock, TRUE, p15card, token)
       ELSE IF thr[t].se_num <= 0
            THEN LockReturn(t, lock, FALSE, thr[t].sent)
            ELSE LockStep(t, Moved(t, "sse_set"), lock, FALSE, p15card, token)

\* the SET SE APDU, sc_unlock, and the return
LockSseSet(t) ==
    /\ thr[t].at = "sse_set"
    /\ LockReturn(t, sc_unlock(lock, t), TRUE, thr[t].sent + 1)

\* err: sc_unlock if locked, and return
LockSseErr(t) ==
    /\ thr[t].at = "sse_err"
    /\ LockReturn(t, sse_err_unlock(lock, t, thr[t].locked), FALSE, thr[t].sent)

NextLock ==
    \/ \E t \in Threads :
          \/ AppLock(t)
          \/ AppUnlock(t)
    \/ \E t \in Callers :
          \/ LockCallPin(t)
          \/ LockCheck(t)
          \/ LockPinLock(t)
          \/ LockPinSelect(t)
          \/ LockPinCmd(t)
          \/ LockPinOut(t)
          \/ LockCallSse(t)
          \/ LockSseLock(t)
          \/ LockSseMse(t)
          \/ LockSseSet(t)
          \/ LockSseErr(t)

SpecLock == InitLock /\ [][NextLock]_vars

\* C28: verify_pin, change_pin, unblock_pin and set_security_env return
\* with the card lock count they were entered with, on every path, and at
\* every moment a thread holds exactly the locks it took outside its call
\* and inside it: no call releases a lock it did not take
C28_LockBalanced ==
    /\ ret.fn # "none" => ret.exit = ret.entry
    /\ \A t \in Threads :
          /\ Held(lock, t) = call.outer[t] + thr[t].locked
          /\ thr[t].at = "idle" => thr[t].locked = 0
    /\ lock.count = 0 <=> lock.owner = 0

\* set_security_env with a stored SE number, entered with the lock held
\* once, has returned on its error path after the MSE APDU failed
C28_Witness ==
    /\ ret.fn = "set_security_env"
    /\ ret.path = "sse_err"
    /\ ret.sent = 1
    /\ ret.entry = 1
    /\ ret.exit = 1

\* C29: a verify_pin, change_pin or unblock_pin call that is rejected by
\* its checks (the authentication type is not PIN, or _validate_pin fails)
\* returns without having taken the card lock or handed an APDU to the
\* reader, and leaves tries_left, the cached content, the usage counter and
\* the chip as they were
C29_RejectedCallHasNoEffect ==
    [][ \A t \in Callers :
           (thr[t].at = "check" /\ thr'[t] # thr[t]) =>
              LET auth_info == p15card.obj_list[thr[t].obj].data
                  rejected == thr'[t].at = "idle"
              IN  /\ auth_info.auth_type # SC_PKCS15_PIN_AUTH_TYPE_PIN => rejected
                  /\ pin_call_check(thr[t].op, reader, p15card, thr[t].obj, call.args)
                        # SC_SUCCESS => rejected
                  /\ rejected =>
                        /\ thr[t].locked = 0 /\ thr[t].sent = 0
                        /\ lock' = lock
                        /\ wire' = wire
                        /\ p15card' = p15card
                        /\ token' = token
                        /\ ret'.path = "check" /\ ret'.sent = 0
                        /\ ret'.exit = ret'.entry ]_vars

\* change_pin has been rejected while the PIN is cached and the chip has
\* counted a wrong PIN: there was a state to disturb
C29_Witness ==
    /\ ret.fn = "change_pin"
    /\ ret.path = "check"
    /\ ret.sent = 0
    /\ CachedPins # {}
    /\ token[1].tries < MaxTries
    /\ lock = NoLock

====
